---- MODULE Spec2Model ----
(***************************************************************************)
(* Onboarding of the SARAS site: the multi-step flow (OnboardingFlow and   *)
(* its five step components) and the single-page variant                   *)
(* (SinglePageOnboarding), as state machines over the React state of the   *)
(* mounted components.  One action per event handler.                      *)
(*                                                                         *)
(* A JavaScript string is a sequence of one-character strings, so that     *)
(* trimming, regular-expression tests, formatting and the Luhn sum are     *)
(* computed as the code computes them.  Error messages are the literal     *)
(* messages of the source; null is the absence of a message.               *)
(***************************************************************************)
EXTENDS Integers, Sequences, FiniteSets, TLC

VARIABLES
    view,          \* which page is mounted: "flow" or "single"
    currentStep,   \* OnboardingFlow: index of the rendered step
    formData,      \* OnboardingData of the mounted page
    errors,        \* errors state of the mounted step / single-page form
    touched,       \* touched state of the mounted step / single-page form
    isSubmitting,
    submitError,
    pending,       \* simulated account-creation calls whose timer has not fired
    lastOutcome,   \* what the latest submission has reported so far
    blurredOrSubmitted, \* history: the fields blurred since the component
                   \* mounted, all of them once a submit of it was attempted
    now,           \* the date new Date() returns: <<year mod 100, month>>
    roundTrip,     \* history: a `previous` just taken (the step and data it
                   \* left), and whether the very next event was a
                   \* successful `next`
    arg,           \* functions on their own: the argument of the call
    result,        \* functions on their own: what the call returned
    auth           \* SignInForm / ForgotPasswordForm: the state of the form

vars == <<view, currentStep, formData, errors, touched, isSubmitting,
          submitError, pending, lastOutcome, blurredOrSubmitted, now, roundTrip,
          arg, result, auth>>

null == "null"

----------------------------------------------------------------------------
(* Characters and strings *)

Digits == {"0", "1", "2", "3", "4", "5", "6", "7", "8", "9"}

Upper == {"A", "B", "C", "D", "E", "F", "G", "H", "I", "J", "K", "L", "M",
          "N", "O", "P", "Q", "R", "S", "T", "U", "V", "W", "X", "Y", "Z"}

Lower == {"a", "b", "c", "d", "e", "f", "g", "h", "i", "j", "k", "l", "m",
          "n", "o", "p", "q", "r", "s", "t", "u", "v", "w", "x", "y", "z"}

\* the character class of PASSWORD_CRITERIA 'special'
Specials == {"!", "@", "#", "$", "%", "^", "&", "*", "(", ")", ",", ".", "?",
             "\"", ":", "{", "}", "|", "<", ">"}

\* \s
Whitespace == {" ", "\t", "\n", "\r"}

DigitVal == ("0" :> 0) @@ ("1" :> 1) @@ ("2" :> 2) @@ ("3" :> 3) @@ ("4" :> 4)
         @@ ("5" :> 5) @@ ("6" :> 6) @@ ("7" :> 7) @@ ("8" :> 8) @@ ("9" :> 9)

Min(a, b) == IF a <= b THEN a ELSE b

AllIn(s, S) == \A i \in 1..Len(s) : s[i] \in S

AnyIn(s, S) == \E i \in 1..Len(s) : s[i] \in S

Keep(s, S) == SelectSeq(s, LAMBDA c : c \in S)

Drop(s, S) == SelectSeq(s, LAMBDA c : c \notin S)

\* String.prototype.substr(start, length)
Substr(s, start, length) == SubSeq(s, start + 1, Min(Len(s), start + length))

RECURSIVE TrimLeft(_)
TrimLeft(s) ==
    IF s # <<>> /\ Head(s) \in Whitespace THEN TrimLeft(Tail(s)) ELSE s

RECURSIVE TrimRight(_)
TrimRight(s) ==
    IF s # <<>> /\ s[Len(s)] \in Whitespace
    THEN TrimRight(SubSeq(s, 1, Len(s) - 1))
    ELSE s

\* String.prototype.trim()
Trim(s) == TrimRight(TrimLeft(s))

\* parseInt of a string of decimal digits
RECURSIVE ParseInt(_)
ParseInt(s) ==
    IF s = <<>> THEN 0
    ELSE 10 * ParseInt(SubSeq(s, 1, Len(s) - 1)) + DigitVal[s[Len(s)]]

\* /^[^\s@]+@[^\s@]+\.[^\s@]+$/.test(s)
EmailRegexTest(s) ==
    \E i \in 2..Len(s) : \E j \in (i + 2)..(Len(s) - 1) :
        /\ s[i] = "@"
        /\ s[j] = "."
        /\ \A k \in 1..Len(s) : k # i => s[k] \notin (Whitespace \cup {"@"})

\* /^\d{5}(-\d{4})?$/.test(s)
ZipRegexTest(s) ==
    \/ Len(s) = 5 /\ AllIn(s, Digits)
    \/ /\ Len(s) = 10
       /\ AllIn(SubSeq(s, 1, 5), Digits)
       /\ s[6] = "-"
       /\ AllIn(SubSeq(s, 7, 10), Digits)

\* /^\d{2}\/\d{2}$/.test(s)
ExpiryRegexTest(s) ==
    /\ Len(s) = 5
    /\ AllIn(SubSeq(s, 1, 2), Digits)
    /\ s[3] = "/"
    /\ AllIn(SubSeq(s, 4, 5), Digits)

\* /^\d{3,4}$/.test(s)
CvvRegexTest(s) == Len(s) \in {3, 4} /\ AllIn(s, Digits)

----------------------------------------------------------------------------
(* Formatters and checks of the payment step (and their single-page copies) *)

RECURSIVE JoinChunks(_)
\* (cleanValue.match(/.{1,4}/g) || []).join(' ')
JoinChunks(d) ==
    IF Len(d) <= 4 THEN d
    ELSE SubSeq(d, 1, 4) \o <<" ">> \o JoinChunks(SubSeq(d, 5, Len(d)))

\* fault: the result is not cut at all
formatCardNumber_NoCut(value) ==
    JoinChunks(Keep(Drop(value, Whitespace), Digits))

\* fault: the result is cut after 20 characters
formatCardNumber_CutAt20(value) ==
    Substr(JoinChunks(Keep(Drop(value, Whitespace), Digits)), 0, 20)

formatCardNumber(value) ==
    Substr(JoinChunks(Keep(Drop(value, Whitespace), Digits)), 0, 19)

\* fault: the slash is added only once a third digit is there
formatExpiryDate_SlashFromThree(value) ==
    LET cleanValue == Keep(value, Digits)
    IN  IF Len(cleanValue) > 2
        THEN Substr(cleanValue, 0, 2) \o <<"/">> \o Substr(cleanValue, 2, 2)
        ELSE cleanValue

formatExpiryDate(value) ==
    LET cleanValue == Keep(value, Digits)
    IN  IF Len(cleanValue) >= 2
        THEN Substr(cleanValue, 0, 2) \o <<"/">> \o Substr(cleanValue, 2, 2)
        ELSE cleanValue

\* value.replace(/\D/g, '').substr(0, 4)
formatCvv(value) == Substr(Keep(value, Digits), 0, 4)

\* fault: the second alternative of the mastercard pattern is not anchored
CardPatternTest_Unanchored(type, s) ==
    CASE type = "visa" -> Len(s) >= 1 /\ s[1] = "4"
      [] type = "mastercard" ->
            \/ Len(s) >= 2 /\ s[1] = "5" /\ s[2] \in {"1", "2", "3", "4", "5"}
            \/ \E i \in 1..(Len(s) - 1) :
                  s[i] = "2" /\ s[i + 1] \in {"2", "3", "4", "5", "6", "7"}
      [] type = "amex" -> Len(s) >= 2 /\ s[1] = "3" /\ s[2] \in {"4", "7"}
      [] type = "discover" ->
            /\ Len(s) >= 2 /\ s[1] = "6"
            /\ \/ s[2] = "5"
               \/ Len(s) >= 4 /\ SubSeq(s, 2, 4) = <<"0", "1", "1">>

\* CARD_PATTERNS[type].test(s):
\* visa /^4/, mastercard /^5[1-5]|^2[2-7]/, amex /^3[47]/,
\* discover /^6(?:011|5)/
CardPatternTest(type, s) ==
    CASE type = "visa" -> Len(s) >= 1 /\ s[1] = "4"
      [] type = "mastercard" ->
            \/ Len(s) >= 2 /\ s[1] = "5" /\ s[2] \in {"1", "2", "3", "4", "5"}
            \/ Len(s) >= 2 /\ s[1] = "2" /\ s[2] \in {"2", "3", "4", "5", "6", "7"}
      [] type = "amex" -> Len(s) >= 2 /\ s[1] = "3" /\ s[2] \in {"4", "7"}
      [] type = "discover" ->
            /\ Len(s) >= 2 /\ s[1] = "6"
            /\ \/ s[2] = "5"
               \/ Len(s) >= 4 /\ SubSeq(s, 2, 4) = <<"0", "1", "1">>

\* Object.entries(CARD_PATTERNS): the keys in insertion order
CardTypeOrder == <<"visa", "mastercard", "amex", "discover">>

RECURSIVE FirstMatch(_, _)
\* for (const [type, pattern] of entries) if (pattern.test(s)) return type;
\* return null
FirstMatch(order, s) ==
    IF order = <<>> THEN null
    ELSE IF CardPatternTest(Head(order), s) THEN Head(order)
    ELSE FirstMatch(Tail(order), s)

\* fault: the patterns are tested on the number as typed, spaces included
detectCardType_KeepsSpaces(cardNumber) == FirstMatch(CardTypeOrder, cardNumber)

detectCardType(cardNumber) ==
    FirstMatch(CardTypeOrder, Drop(cardNumber, Whitespace))

RECURSIVE LuhnSum(_, _, _)

\* fault: a doubled digit above 4 is not reduced by 9
LuhnSum_NoSubtract(s, i, shouldDouble) ==
    IF i < 1 THEN 0
    ELSE LET d == DigitVal[s[i]]
             digit == IF shouldDouble THEN 2 * d ELSE d
         IN  digit + LuhnSum(s, i - 1, ~shouldDouble)

\* the for loop of isValidCardNumber, from index i down to 0
LuhnSum(s, i, shouldDouble) ==
    IF i < 1 THEN 0
    ELSE LET d == DigitVal[s[i]]
             digit == IF shouldDouble
                      THEN (IF 2 * d > 9 THEN 2 * d - 9 ELSE 2 * d)
                      ELSE d
         IN  digit + LuhnSum(s, i - 1, ~shouldDouble)

\* fault: the length of the number is not checked
isValidCardNumber_AnyLength(cardNumber) ==
    LET cleanNumber == Drop(cardNumber, Whitespace)
    IN  IF cleanNumber = <<>> \/ ~AllIn(cleanNumber, Digits)
        THEN FALSE
        ELSE LuhnSum(cleanNumber, Len(cleanNumber), FALSE) % 10 = 0

isValidCardNumber(cardNumber) ==
    LET cleanNumber == Drop(cardNumber, Whitespace)
    IN  IF \/ cleanNumber = <<>>
           \/ ~AllIn(cleanNumber, Digits)
           \/ Len(cleanNumber) < 13
           \/ Len(cleanNumber) > 19
        THEN FALSE
        ELSE LuhnSum(cleanNumber, Len(cleanNumber), FALSE) % 10 = 0

\* fault: nothing counts until the password is 8 characters long
getPasswordStrength_LengthFirst(password) ==
    IF Len(password) < 8 THEN 0
    ELSE 1 + (IF AnyIn(password, Upper) THEN 1 ELSE 0)
           + (IF AnyIn(password, Lower) THEN 1 ELSE 0)
           + (IF AnyIn(password, Digits) THEN 1 ELSE 0)
           + (IF AnyIn(password, Specials) THEN 1 ELSE 0)

\* PASSWORD_CRITERIA.filter(c => c.test(password)).length, 0 for ''
getPasswordStrength(password) ==
    IF password = <<>> THEN 0
    ELSE (IF Len(password) >= 8 THEN 1 ELSE 0)
       + (IF AnyIn(password, Upper) THEN 1 ELSE 0)
       + (IF AnyIn(password, Lower) THEN 1 ELSE 0)
       + (IF AnyIn(password, Digits) THEN 1 ELSE 0)
       + (IF AnyIn(password, Specials) THEN 1 ELSE 0)

\* getPasswordStrengthDisplay(score).label
getPasswordStrengthDisplay(score) ==
    IF score <= 1 THEN "Weak"
    ELSE IF score <= 3 THEN "Fair"
    ELSE IF score <= 4 THEN "Good"
    ELSE "Strong"

----------------------------------------------------------------------------
(* The fields of OnboardingData and the steps that own them *)

PersonalFields == {"firstName", "lastName", "email"}

AccountFields == {"password", "confirmPassword"}

BillingFields ==
    {"addressLine1", "addressLine2", "city", "state", "zipCode", "country"}

\* requiredFields of BillingAddressStep.validateForm
BillingRequired == {"addressLine1", "city", "state", "zipCode", "country"}

PaymentFields == {"cardNumber", "expiryDate", "cvv", "cardholderName"}

FieldNames == PersonalFields \cup AccountFields \cup BillingFields \cup PaymentFields

\* keys of an errors object ('terms' is set by the single-page form only)
ErrorKeys == FieldNames \cup {"terms"}

SectionOf(field) ==
    IF field \in PersonalFields THEN "personalInfo"
    ELSE IF field \in AccountFields THEN "accountSetup"
    ELSE IF field \in BillingFields THEN "billingAddress"
    ELSE "paymentInfo"

\* ONBOARDING_STEPS.length
NumSteps == 5

\* ONBOARDING_STEPS[i].id
StepId(i) ==
    CASE i = 0 -> "personal-info"
      [] i = 1 -> "account-setup"
      [] i = 2 -> "billing-address"
      [] i = 3 -> "payment-info"
      [] i = 4 -> "terms-confirmation"

\* the options of the state select
US_STATES ==
    {<<"A", "l", "a", "b", "a", "m", "a">>,
     <<"A", "l", "a", "s", "k", "a">>,
     <<"A", "r", "i", "z", "o", "n", "a">>,
     <<"A", "r", "k", "a", "n", "s", "a", "s">>,
     <<"C", "a", "l", "i", "f", "o", "r", "n", "i", "a">>,
     <<"C", "o", "l", "o", "r", "a", "d", "o">>,
     <<"C", "o", "n", "n", "e", "c", "t", "i", "c", "u", "t">>,
     <<"D", "e", "l", "a", "w", "a", "r", "e">>,
     <<"F", "l", "o", "r", "i", "d", "a">>,
     <<"G", "e", "o", "r", "g", "i", "a">>,
     <<"H", "a", "w", "a", "i", "i">>,
     <<"I", "d", "a", "h", "o">>,
     <<"I", "l", "l", "i", "n", "o", "i", "s">>,
     <<"I", "n", "d", "i", "a", "n", "a">>,
     <<"I", "o", "w", "a">>,
     <<"K", "a", "n", "s", "a", "s">>,
     <<"K", "e", "n", "t", "u", "c", "k", "y">>,
     <<"L", "o", "u", "i", "s", "i", "a", "n", "a">>,
     <<"M", "a", "i", "n", "e">>,
     <<"M", "a", "r", "y", "l", "a", "n", "d">>,
     <<"M", "a", "s", "s", "a", "c", "h", "u", "s", "e", "t", "t", "s">>,
     <<"M", "i", "c", "h", "i", "g", "a", "n">>,
     <<"M", "i", "n", "n", "e", "s", "o", "t", "a">>,
     <<"M", "i", "s", "s", "i", "s", "s", "i", "p", "p", "i">>,
     <<"M", "i", "s", "s", "o", "u", "r", "i">>,
     <<"M", "o", "n", "t", "a", "n", "a">>,
     <<"N", "e", "b", "r", "a", "s", "k", "a">>,
     <<"N", "e", "v", "a", "d", "a">>,
     <<"N", "e", "w", " ", "H", "a", "m", "p", "s", "h", "i", "r", "e">>,
     <<"N", "e", "w", " ", "J", "e", "r", "s", "e", "y">>,
     <<"N", "e", "w", " ", "M", "e", "x", "i", "c", "o">>,
     <<"N", "e", "w", " ", "Y", "o", "r", "k">>,
     <<"N", "o", "r", "t", "h", " ", "C", "a", "r", "o", "l", "i", "n", "a">>,
     <<"N", "o", "r", "t", "h", " ", "D", "a", "k", "o", "t", "a">>,
     <<"O", "h", "i", "o">>,
     <<"O", "k", "l", "a", "h", "o", "m", "a">>,
     <<"O", "r", "e", "g", "o", "n">>,
     <<"P", "e", "n", "n", "s", "y", "l", "v", "a", "n", "i", "a">>,
     <<"R", "h", "o", "d", "e", " ", "I", "s", "l", "a", "n", "d">>,
     <<"S", "o", "u", "t", "h", " ", "C", "a", "r", "o", "l", "i", "n", "a">>,
     <<"S", "o", "u", "t", "h", " ", "D", "a", "k", "o", "t", "a">>,
     <<"T", "e", "n", "n", "e", "s", "s", "e", "e">>,
     <<"T", "e", "x", "a", "s">>,
     <<"U", "t", "a", "h">>,
     <<"V", "e", "r", "m", "o", "n", "t">>,
     <<"V", "i", "r", "g", "i", "n", "i", "a">>,
     <<"W", "a", "s", "h", "i", "n", "g", "t", "o", "n">>,
     <<"W", "e", "s", "t", " ", "V", "i", "r", "g", "i", "n", "i", "a">>,
     <<"W", "i", "s", "c", "o", "n", "s", "i", "n">>,
     <<"W", "y", "o", "m", "i", "n", "g">>}

UnitedStates == <<"U", "n", "i", "t", "e", "d", " ", "S", "t", "a", "t", "e", "s">>

Canada == <<"C", "a", "n", "a", "d", "a">>

\* the useState initialiser of formData (both pages)
EmptyForm ==
    [personalInfo |-> [firstName |-> <<>>, lastName |-> <<>>, email |-> <<>>],
     accountSetup |-> [password |-> <<>>, confirmPassword |-> <<>>],
     billingAddress |-> [addressLine1 |-> <<>>, addressLine2 |-> <<>>,
                         city |-> <<>>, state |-> <<>>, zipCode |-> <<>>,
                         country |-> UnitedStates],
     paymentInfo |-> [cardNumber |-> <<>>, expiryDate |-> <<>>, cvv |-> <<>>,
                      cardholderName |-> <<>>],
     termsAccepted |-> FALSE]

\* errors and touched of a freshly mounted component: useState({})
NoErrors == [k \in ErrorKeys |-> null]

NoneTouched == [f \in FieldNames |-> FALSE]

\* no function is being called on its own
NoCall == [fn |-> "none"]

\* useState initial values of SignInForm and ForgotPasswordForm; `call` and
\* `submitted` record the simulated API call in flight and the formData it
\* was started with
AuthUnmounted ==
    [formData |-> [email |-> <<>>, password |-> <<>>],
     errors |-> [email |-> null, password |-> null, general |-> null],
     showPassword |-> FALSE,
     isSubmitting |-> FALSE,
     isEmailSent |-> FALSE,
     call |-> "none",
     submitted |-> [email |-> <<>>, password |-> <<>>]]

NoRoundTrip == [phase |-> "none", step |-> 0, data |-> EmptyForm]

IsValid(newErrors) == \A k \in ErrorKeys : newErrors[k] = null

----------------------------------------------------------------------------
(* Validators of the four data steps of the multi-step flow *)

PersonalInfo_validateField(field, value) ==
    CASE field = "firstName" ->
            IF Trim(value) = <<>> THEN "First name is required"
            ELSE IF Len(Trim(value)) < 2
                 THEN "First name must be at least 2 characters"
                 ELSE null
      [] field = "lastName" ->
            IF Trim(value) = <<>> THEN "Last name is required"
            ELSE IF Len(Trim(value)) < 2
                 THEN "Last name must be at least 2 characters"
                 ELSE null
      [] field = "email" ->
            IF Trim(value) = <<>> THEN "Email address is required"
            ELSE IF ~EmailRegexTest(value)
                 THEN "Please enter a valid email address"
                 ELSE null
      [] OTHER -> null

PersonalInfo_validateForm(data) ==
    [k \in ErrorKeys |->
        IF k \in PersonalFields THEN PersonalInfo_validateField(k, data[k])
        ELSE null]

\* fault: four of the five criteria are enough
AccountSetup_validateForm_FourCriteria(data) ==
    [k \in ErrorKeys |->
        CASE k = "password" ->
                IF data.password = <<>> THEN "Password is required"
                ELSE IF getPasswordStrength(data.password) < 4
                     THEN "Password must meet all security requirements"
                     ELSE null
          [] k = "confirmPassword" ->
                IF data.confirmPassword = <<>>
                THEN "Password confirmation is required"
                ELSE IF data.password # data.confirmPassword
                     THEN "Passwords do not match"
                     ELSE null
          [] OTHER -> null]

AccountSetup_validateForm(data) ==
    [k \in ErrorKeys |->
        CASE k = "password" ->
                IF data.password = <<>> THEN "Password is required"
                ELSE IF getPasswordStrength(data.password) < 5
                     THEN "Password must meet all security requirements"
                     ELSE null
          [] k = "confirmPassword" ->
                IF data.confirmPassword = <<>>
                THEN "Password confirmation is required"
                ELSE IF data.password # data.confirmPassword
                     THEN "Passwords do not match"
                     ELSE null
          [] OTHER -> null]

\* fault: the country is not looked at, every code is a postal code
BillingAddress_validateField_AnyCountry(data, field, value) ==
    CASE field = "addressLine1" ->
            IF Trim(value) = <<>> THEN "Street address is required"
            ELSE IF Len(Trim(value)) < 5
                 THEN "Please enter a complete street address"
                 ELSE null
      [] field = "city" ->
            IF Trim(value) = <<>> THEN "City is required"
            ELSE IF Len(Trim(value)) < 2 THEN "Please enter a valid city name"
                 ELSE null
      [] field = "state" ->
            IF Trim(value) = <<>> THEN "State/Province is required" ELSE null
      [] field = "zipCode" ->
            IF Trim(value) = <<>> THEN "ZIP/Postal code is required"
            ELSE IF Len(Trim(value)) < 3
                 THEN "Please enter a valid postal code"
                 ELSE null
      [] field = "country" ->
            IF Trim(value) = <<>> THEN "Country is required" ELSE null
      [] OTHER -> null

\* data is the billingAddress the component was rendered with (data.country)
BillingAddress_validateField(data, field, value) ==
    CASE field = "addressLine1" ->
            IF Trim(value) = <<>> THEN "Street address is required"
            ELSE IF Len(Trim(value)) < 5
                 THEN "Please enter a complete street address"
                 ELSE null
      [] field = "city" ->
            IF Trim(value) = <<>> THEN "City is required"
            ELSE IF Len(Trim(value)) < 2 THEN "Please enter a valid city name"
                 ELSE null
      [] field = "state" ->
            IF Trim(value) = <<>> THEN "State/Province is required" ELSE null
      [] field = "zipCode" ->
            IF Trim(value) = <<>> THEN "ZIP/Postal code is required"
            ELSE IF data.country = UnitedStates
                 THEN (IF ~ZipRegexTest(value)
                       THEN "Please enter a valid ZIP code (12345 or 12345-6789)"
                       ELSE null)
                 ELSE IF Len(Trim(value)) < 3
                      THEN "Please enter a valid postal code"
                      ELSE null
      [] field = "country" ->
            IF Trim(value) = <<>> THEN "Country is required" ELSE null
      [] OTHER -> null

BillingAddress_validateForm(data) ==
    [k \in ErrorKeys |->
        IF k \in BillingRequired
        THEN BillingAddress_validateField(data, k, data[k])
        ELSE null]

\* date is <<now.getFullYear() % 100, now.getMonth() + 1>>
PaymentInfo_validateField(date, field, value) ==
    CASE field = "cardNumber" ->
            IF Trim(value) = <<>> THEN "Card number is required"
            ELSE IF ~isValidCardNumber(value)
                 THEN "Please enter a valid card number"
                 ELSE null
      [] field = "expiryDate" ->
            IF Trim(value) = <<>> THEN "Expiry date is required"
            ELSE IF ~ExpiryRegexTest(value) THEN "Please enter date as MM/YY"
            ELSE LET month == ParseInt(SubSeq(value, 1, 2))
                     year == ParseInt(SubSeq(value, 4, 5))
                 IN  IF month < 1 \/ month > 12 THEN "Invalid month"
                     ELSE IF \/ year < date[1]
                             \/ (year = date[1] /\ month < date[2])
                          THEN "Card has expired"
                          ELSE null
      [] field = "cvv" ->
            IF Trim(value) = <<>> THEN "CVV is required"
            ELSE IF ~CvvRegexTest(value) THEN "CVV must be 3 or 4 digits"
                 ELSE null
      [] field = "cardholderName" ->
            IF Trim(value) = <<>> THEN "Cardholder name is required"
            ELSE IF Len(Trim(value)) < 2
                 THEN "Please enter the full name on the card"
                 ELSE null
      [] OTHER -> null

PaymentInfo_validateForm(date, data) ==
    [k \in ErrorKeys |->
        IF k \in PaymentFields THEN PaymentInfo_validateField(date, k, data[k])
        ELSE null]

----------------------------------------------------------------------------
(* validateForm of the single-page variant *)

SinglePage_validateForm(fd) ==
    [k \in ErrorKeys |->
        CASE k = "firstName" ->
                IF Trim(fd.personalInfo.firstName) = <<>>
                THEN "First name is required" ELSE null
          [] k = "lastName" ->
                IF Trim(fd.personalInfo.lastName) = <<>>
                THEN "Last name is required" ELSE null
          [] k = "email" ->
                IF Trim(fd.personalInfo.email) = <<>> THEN "Email is required"
                ELSE IF ~EmailRegexTest(fd.personalInfo.email)
                     THEN "Please enter a valid email address"
                     ELSE null
          [] k = "password" ->
                IF getPasswordStrength(fd.accountSetup.password) < 5
                THEN "Password must meet all security requirements" ELSE null
          [] k = "confirmPassword" ->
                IF fd.accountSetup.password # fd.accountSetup.confirmPassword
                THEN "Passwords do not match" ELSE null
          [] k = "addressLine1" ->
                IF Trim(fd.billingAddress.addressLine1) = <<>>
                THEN "Street address is required" ELSE null
          [] k = "city" ->
                IF Trim(fd.billingAddress.city) = <<>>
                THEN "City is required" ELSE null
          [] k = "state" ->
                IF Trim(fd.billingAddress.state) = <<>>
                THEN "State is required" ELSE null
          [] k = "zipCode" ->
                IF Trim(fd.billingAddress.zipCode) = <<>>
                THEN "ZIP code is required" ELSE null
          [] k = "country" ->
                IF Trim(fd.billingAddress.country) = <<>>
                THEN "Country is required" ELSE null
          [] k = "cardNumber" ->
                IF ~isValidCardNumber(fd.paymentInfo.cardNumber)
                THEN "Please enter a valid card number" ELSE null
          [] k = "expiryDate" ->
                IF ~ExpiryRegexTest(fd.paymentInfo.expiryDate)
                THEN "Please enter date as MM/YY" ELSE null
          [] k = "cvv" ->
                IF ~CvvRegexTest(fd.paymentInfo.cvv)
                THEN "CVV must be 3 or 4 digits" ELSE null
          [] k = "cardholderName" ->
                IF Trim(fd.paymentInfo.cardholderName) = <<>>
                THEN "Cardholder name is required" ELSE null
          [] k = "terms" ->
                IF ~fd.termsAccepted
                THEN "You must accept the terms and conditions" ELSE null
          [] OTHER -> null]

----------------------------------------------------------------------------
(* What the user types: for each input, the values an onChange event may  *)
(* carry (e.target.value).                                               *)

TypedFirstName == {<<>>, <<"A">>, <<"A", "l">>}

TypedLastName == {<<"B", "o">>}

TypedEmail == {<<"a", "@", "b">>, <<"a", "@", "b", ".", "c">>}

TypedPassword ==
    {<<"a", "b", "c", "d", "e", "f">>,
     <<"A", "b", "c", "d", "e", "f", "1", "!">>}

TypedAddressLine1 == {<<"1", " ", "M", "a", "i", "n", " ", "S", "t">>}

TypedAddressLine2 == {<<"A", "p", "t", " ", "2">>}

TypedCity == {<<"L", "A">>}

\* an option of the state select, rendered while country is United States
TypedState == {<<"T", "e", "x", "a", "s">>}

\* free text of the state input, rendered for any other country
TypedProvince == {<<"O", "n", "t", "a", "r", "i", "o">>}

TypedZipCode == {<<"1", "2", "3", "4">>, <<"1", "2", "3", "4", "5">>}

\* two of the options of the country select (COUNTRIES)
TypedCountry == {UnitedStates, Canada}

\* raw keystrokes, before formatCardNumber: a Luhn-valid test number and
\* the same number with its last digit changed
TypedCardNumber ==
    {<<"4", "1", "1", "1", "-", "1", "1", "1", "1", "-", "1", "1", "1", "1", "-", "1", "1", "1", "1", " ", "9">>,
     <<"4", "1", "1", "1", "1", "1", "1", "1", "1", "1", "1", "1", "1", "1", "1", "2">>}

\* raw keystrokes, before formatExpiryDate: December 2030 and month 13
TypedExpiryDate ==
    {<<"1", "2", "3", "0">>, <<"1", "3", "/", "3", "0", "5">>}

TypedCvv == {<<"1", "2", "a", "3", "4", "5">>}

TypedCardholderName == {<<"A", "l">>}

InputValues(field) ==
    CASE field = "firstName" -> TypedFirstName
      [] field = "lastName" -> TypedLastName
      [] field = "email" -> TypedEmail
      [] field = "password" -> TypedPassword
      [] field = "confirmPassword" -> TypedPassword
      [] field = "addressLine1" -> TypedAddressLine1
      [] field = "addressLine2" -> TypedAddressLine2
      [] field = "city" -> TypedCity
      [] field = "state" -> TypedState
      [] field = "zipCode" -> TypedZipCode
      [] field = "country" -> TypedCountry
      [] field = "cardNumber" -> TypedCardNumber
      [] field = "expiryDate" -> TypedExpiryDate
      [] field = "cvv" -> TypedCvv
      [] field = "cardholderName" -> TypedCardholderName

\* BillingAddressStep: state is a select of US_STATES while data.country is
\* 'United States' and a text input otherwise
BillingInputValues(data, field) ==
    IF field = "state"
    THEN IF data.country = UnitedStates THEN TypedState ELSE TypedProvince
    ELSE InputValues(field)

\* the inputs of the single page that are edited
SinglePageEdited == {"firstName", "password", "zipCode", "cardNumber"}

\* a form typed in full on the single page, the terms box not yet checked:
\* its change handlers validate nothing, so the page holds it with no error
FilledForm ==
    [personalInfo |-> [firstName |-> <<"A", "l">>, lastName |-> <<"B", "o">>,
                       email |-> <<"a", "@", "b", ".", "c">>],
     accountSetup |->
        [password |-> <<"A", "b", "c", "d", "e", "f", "1", "!">>,
         confirmPassword |-> <<"A", "b", "c", "d", "e", "f", "1", "!">>],
     billingAddress |->
        [addressLine1 |-> <<"1", " ", "M", "a", "i", "n", " ", "S", "t">>,
         addressLine2 |-> <<>>,
         city |-> <<"L", "A">>,
         state |-> <<"T", "e", "x", "a", "s">>,
         zipCode |-> <<"1", "2", "3", "4", "5">>,
         country |-> UnitedStates],
     paymentInfo |->
        [cardNumber |-> formatCardNumber(
            <<"4", "1", "1", "1", "1", "1", "1", "1", "1", "1", "1", "1", "1", "1", "1", "1">>),
         expiryDate |-> formatExpiryDate(<<"1", "2", "3", "0">>),
         cvv |-> <<"1", "2", "3">>,
         cardholderName |-> <<"A", "l">>],
     termsAccepted |-> FALSE]

\* the dates new Date() may return during a session
Today == <<26, 11>>

\* most simulated account-creation calls the model lets be outstanding
MaxPending == 2

----------------------------------------------------------------------------
(* Initial state: one of the two pages, freshly mounted *)

Init ==
    /\ view \in {"flow", "single"}
    /\ currentStep = 0
    /\ formData \in (IF view = "flow" THEN {EmptyForm} ELSE {EmptyForm, FilledForm})
    /\ errors = NoErrors
    /\ touched = NoneTouched
    /\ isSubmitting = FALSE
    /\ submitError = null
    /\ pending = 0
    /\ lastOutcome = "none"
    /\ blurredOrSubmitted = {}
    /\ now = Today
    /\ roundTrip = NoRoundTrip
    /\ arg = NoCall
    /\ result = NoCall
    /\ auth = AuthUnmounted

----------------------------------------------------------------------------
(* OnboardingFlow *)

\* fault: the index is advanced past the next step
handleNext_SkipsStep(step) ==
    IF step < NumSteps - 2 THEN step + 2 ELSE NumSteps - 1

handleNext(step) == IF step < NumSteps - 1 THEN step + 1 ELSE step

\* fault: `previous` restarts the flow
handlePrevious_ToStart(step) == 0

handlePrevious(step) == IF step > 0 THEN step - 1 ELSE step

\* setFormData(prev => ({ ...prev, [section]: data })) with data one field changed
updateFormData(section, field, value) ==
    [formData EXCEPT ![section][field] = value]

\* setCurrentStep(step): the step rendered changes, the old step component
\* unmounts and the new one mounts with useState({}) for errors and touched
RenderStep(step) ==
    /\ currentStep' = step
    /\ IF step # currentStep
       THEN /\ errors' = NoErrors
            /\ touched' = NoneTouched
            /\ blurredOrSubmitted' = {}
       ELSE UNCHANGED <<errors, touched, blurredOrSubmitted>>

\* fault: the awaited promise rejects
PromiseOutcome_Rejected == "rejected"

\* the outcome of `await new Promise(resolve => setTimeout(resolve, 2000))`
PromiseOutcome == "resolved"

SubmitErrorMessage ==
    "An error occurred while creating your account. Please try again."

\* handleSubmit up to its await
OnboardingFlow_handleSubmit ==
    /\ pending < MaxPending
    /\ isSubmitting' = TRUE
    /\ submitError' = null
    /\ pending' = pending + 1
    /\ lastOutcome' = "pending"

\* handleSubmit from its await to the end: alert, catch, finally
OnboardingFlow_handleSubmit_resume ==
    /\ view = "flow"
    /\ pending > 0
    /\ pending' = pending - 1
    /\ IF PromiseOutcome = "resolved"
       THEN lastOutcome' = "success" /\ UNCHANGED submitError
       ELSE lastOutcome' = "error" /\ submitError' = SubmitErrorMessage
    /\ isSubmitting' = FALSE
    /\ UNCHANGED <<view, currentStep, formData, errors, touched, blurredOrSubmitted, now>>
    /\ UNCHANGED <<arg, result, auth>>
    /\ roundTrip' = NoRoundTrip

----------------------------------------------------------------------------
(* The step components: handleInputChange, handleFieldBlur, handleSubmit *)

\* fault: the changed field is validated whether touched or not
ChangeErrors_IgnoresTouched(field, error) == [errors EXCEPT ![field] = error]

\* if (errors[field]) clear it; if (touched[field] && error) set it
ChangeErrors(field, error) ==
    [errors EXCEPT ![field] = IF touched[field] /\ error # null THEN error ELSE null]

\* setTouched(prev => ({...prev, [field]: true})); if (error) set it
BlurField(field, error) ==
    /\ touched' = [touched EXCEPT ![field] = TRUE]
    /\ errors' = IF error # null THEN [errors EXCEPT ![field] = error] ELSE errors
    /\ blurredOrSubmitted' = blurredOrSubmitted \cup {field}
    /\ UNCHANGED <<view, currentStep, formData, isSubmitting, submitError,
                   pending, lastOutcome, now>>
    /\ UNCHANGED <<arg, result, auth>>
    /\ roundTrip' = NoRoundTrip

\* fault: onNext() is called whatever validateForm returns
SubmitStep_NoValidation(fields, newErrors) ==
    /\ RenderStep(handleNext(currentStep))
    /\ UNCHANGED <<arg, result, auth>>
    /\ roundTrip' = NoRoundTrip
    /\ UNCHANGED <<view, formData, isSubmitting, submitError, pending,
                   lastOutcome, now>>

\* fault: validateForm merges the new errors into the old ones
SubmitStep_MergesErrors(fields, newErrors) ==
    /\ IF IsValid(newErrors)
       THEN RenderStep(handleNext(currentStep))
       ELSE /\ errors' = [k \in ErrorKeys |->
                            IF newErrors[k] # null THEN newErrors[k]
                            ELSE errors[k]]
            /\ touched' = [f \in FieldNames |-> f \in fields]
            /\ blurredOrSubmitted' = ErrorKeys
            /\ UNCHANGED currentStep
    /\ UNCHANGED <<arg, result, auth>>
    /\ roundTrip' = IF IsValid(newErrors) /\ roundTrip.phase = "previous"
                    THEN [roundTrip EXCEPT !.phase = "returned"]
                    ELSE NoRoundTrip
    /\ UNCHANGED <<view, formData, isSubmitting, submitError, pending,
                   lastOutcome, now>>

\* setTouched({all fields}); if (validateForm()) onNext();
\* validateForm does setErrors(newErrors)
SubmitStep(fields, newErrors) ==
    /\ IF IsValid(newErrors)
       THEN RenderStep(handleNext(currentStep))
       ELSE /\ errors' = newErrors
            /\ touched' = [f \in FieldNames |-> f \in fields]
            /\ blurredOrSubmitted' = ErrorKeys
            /\ UNCHANGED currentStep
    /\ UNCHANGED <<arg, result, auth>>
    /\ roundTrip' = IF IsValid(newErrors) /\ roundTrip.phase = "previous"
                    THEN [roundTrip EXCEPT !.phase = "returned"]
                    ELSE NoRoundTrip
    /\ UNCHANGED <<view, formData, isSubmitting, submitError, pending,
                   lastOutcome, now>>

PersonalInfoStep_handleInputChange ==
    /\ view = "flow" /\ StepId(currentStep) = "personal-info"
    /\ \E field \in PersonalFields : \E value \in InputValues(field) :
        /\ formData' = updateFormData("personalInfo", field, value)
        /\ errors' = ChangeErrors(field, PersonalInfo_validateField(field, value))
    /\ UNCHANGED <<view, currentStep, touched, isSubmitting, submitError,
                   pending, lastOutcome, blurredOrSubmitted, now>>
    /\ UNCHANGED <<arg, result, auth>>
    /\ roundTrip' = NoRoundTrip

PersonalInfoStep_handleFieldBlur ==
    /\ view = "flow" /\ StepId(currentStep) = "personal-info"
    /\ \E field \in PersonalFields :
        BlurField(field,
                  PersonalInfo_validateField(field, formData.personalInfo[field]))

PersonalInfoStep_handleSubmit ==
    /\ view = "flow" /\ StepId(currentStep) = "personal-info"
    /\ SubmitStep(PersonalFields, PersonalInfo_validateForm(formData.personalInfo))

AccountSetupStep_handleInputChange ==
    /\ view = "flow" /\ StepId(currentStep) = "account-setup"
    /\ \E field \in AccountFields : \E value \in InputValues(field) :
        LET data == formData.accountSetup
            cleared == [errors EXCEPT ![field] = null]
        IN  /\ formData' = updateFormData("accountSetup", field, value)
            /\ errors' =
                 IF /\ field = "password"
                    /\ data.confirmPassword # <<>>
                    /\ touched["confirmPassword"]
                 THEN [cleared EXCEPT !["confirmPassword"] =
                          IF value # data.confirmPassword
                          THEN "Passwords do not match" ELSE null]
                 ELSE cleared
    /\ UNCHANGED <<view, currentStep, touched, isSubmitting, submitError,
                   pending, lastOutcome, blurredOrSubmitted, now>>
    /\ UNCHANGED <<arg, result, auth>>
    /\ roundTrip' = NoRoundTrip

AccountSetupStep_handleFieldBlur ==
    /\ view = "flow" /\ StepId(currentStep) = "account-setup"
    /\ \E field \in AccountFields :
        BlurField(field,
                  IF /\ field = "confirmPassword"
                     /\ formData.accountSetup.password
                            # formData.accountSetup.confirmPassword
                  THEN "Passwords do not match" ELSE null)

AccountSetupStep_handleSubmit ==
    /\ view = "flow" /\ StepId(currentStep) = "account-setup"
    /\ SubmitStep(AccountFields, AccountSetup_validateForm(formData.accountSetup))

BillingAddressStep_handleInputChange ==
    /\ view = "flow" /\ StepId(currentStep) = "billing-address"
    /\ \E field \in BillingFields :
       \E value \in BillingInputValues(formData.billingAddress, field) :
        /\ formData' = updateFormData("billingAddress", field, value)
        /\ errors' = ChangeErrors(field,
               BillingAddress_validateField(formData.billingAddress, field, value))
    /\ UNCHANGED <<view, currentStep, touched, isSubmitting, submitError,
                   pending, lastOutcome, blurredOrSubmitted, now>>
    /\ UNCHANGED <<arg, result, auth>>
    /\ roundTrip' = NoRoundTrip

\* addressLine2 has no onBlur
BillingAddressStep_handleFieldBlur ==
    /\ view = "flow" /\ StepId(currentStep) = "billing-address"
    /\ \E field \in BillingRequired :
        BlurField(field,
                  BillingAddress_validateField(formData.billingAddress, field,
                                               formData.billingAddress[field]))

BillingAddressStep_handleSubmit ==
    /\ view = "flow" /\ StepId(currentStep) = "billing-address"
    /\ SubmitStep(BillingRequired,
                  BillingAddress_validateForm(formData.billingAddress))

\* fault: the value is stored and validated as typed
PaymentInfoStep_format_AsTyped(field, value) == value

PaymentInfoStep_format(field, value) ==
    CASE field = "cardNumber" -> formatCardNumber(value)
      [] field = "expiryDate" -> formatExpiryDate(value)
      [] field = "cvv" -> formatCvv(value)
      [] OTHER -> value

PaymentInfoStep_handleInputChange ==
    /\ view = "flow" /\ StepId(currentStep) = "payment-info"
    /\ \E field \in PaymentFields : \E value \in InputValues(field) :
        LET formattedValue == PaymentInfoStep_format(field, value)
        IN  /\ formData' = updateFormData("paymentInfo", field, formattedValue)
            /\ errors' = ChangeErrors(field,
                   PaymentInfo_validateField(now, field, formattedValue))
    /\ UNCHANGED <<view, currentStep, touched, isSubmitting, submitError,
                   pending, lastOutcome, blurredOrSubmitted, now>>
    /\ UNCHANGED <<arg, result, auth>>
    /\ roundTrip' = NoRoundTrip

PaymentInfoStep_handleFieldBlur ==
    /\ view = "flow" /\ StepId(currentStep) = "payment-info"
    /\ \E field \in PaymentFields :
        BlurField(field,
                  PaymentInfo_validateField(now, field, formData.paymentInfo[field]))

PaymentInfoStep_handleSubmit ==
    /\ view = "flow" /\ StepId(currentStep) = "payment-info"
    /\ SubmitStep(PaymentFields, PaymentInfo_validateForm(now, formData.paymentInfo))

\* the Previous button: rendered by every step but personal-info, disabled
\* by the terms step while isSubmitting
PreviousButtonEnabled ==
    /\ view = "flow"
    /\ StepId(currentStep) # "personal-info"
    /\ ~(StepId(currentStep) = "terms-confirmation" /\ isSubmitting)

\* fault: going back resets the data of the step that is left
Step_onPrevious_ClearsStep ==
    /\ PreviousButtonEnabled
    /\ RenderStep(handlePrevious(currentStep))
    /\ UNCHANGED <<arg, result, auth>>
    /\ roundTrip' = [phase |-> "previous", step |-> currentStep, data |-> formData]
    /\ formData' =
         IF currentStep = 1
         THEN [formData EXCEPT !.accountSetup = EmptyForm.accountSetup]
         ELSE IF currentStep = 2
         THEN [formData EXCEPT !.billingAddress = EmptyForm.billingAddress]
         ELSE IF currentStep = 3
         THEN [formData EXCEPT !.paymentInfo = EmptyForm.paymentInfo]
         ELSE [formData EXCEPT !.termsAccepted = FALSE]
    /\ UNCHANGED <<view, isSubmitting, submitError, pending, lastOutcome, now>>

Step_onPrevious ==
    /\ PreviousButtonEnabled
    /\ RenderStep(handlePrevious(currentStep))
    /\ UNCHANGED <<arg, result, auth>>
    /\ roundTrip' = [phase |-> "previous", step |-> currentStep, data |-> formData]
    /\ UNCHANGED <<view, formData, isSubmitting, submitError, pending,
                   lastOutcome, now>>

\* the terms checkbox: onChange={(e) => onUpdate(e.target.checked)}
TermsConfirmationStep_onUpdate ==
    /\ view = "flow" /\ StepId(currentStep) = "terms-confirmation"
    /\ formData' = [formData EXCEPT !.termsAccepted = ~formData.termsAccepted]
    /\ UNCHANGED <<view, currentStep, errors, touched, isSubmitting, submitError,
                   pending, lastOutcome, blurredOrSubmitted, now>>
    /\ UNCHANGED <<arg, result, auth>>
    /\ roundTrip' = NoRoundTrip

\* fault: the button stays enabled while a submission is in flight
CompleteSignupEnabled_WhileSubmitting ==
    /\ view = "flow" /\ StepId(currentStep) = "terms-confirmation"
    /\ formData.termsAccepted

\* the Complete Signup button: disabled={!termsAccepted || isSubmitting}
CompleteSignupEnabled ==
    /\ view = "flow" /\ StepId(currentStep) = "terms-confirmation"
    /\ ~(~formData.termsAccepted \/ isSubmitting)

\* fault: neither the button nor the handler looks at termsAccepted
TermsConfirmationStep_handleSubmit_Unguarded ==
    /\ view = "flow" /\ StepId(currentStep) = "terms-confirmation"
    /\ ~isSubmitting
    /\ OnboardingFlow_handleSubmit
    /\ UNCHANGED <<view, currentStep, formData, errors, touched,
                   blurredOrSubmitted, now>>
    /\ UNCHANGED <<arg, result, auth>>
    /\ roundTrip' = NoRoundTrip

\* if (!termsAccepted) return; await onSubmit();
TermsConfirmationStep_handleSubmit ==
    /\ CompleteSignupEnabled
    /\ IF ~formData.termsAccepted
       THEN UNCHANGED <<isSubmitting, submitError, pending, lastOutcome>>
       ELSE OnboardingFlow_handleSubmit
    /\ UNCHANGED <<view, currentStep, formData, errors, touched, blurredOrSubmitted, now>>
    /\ UNCHANGED <<arg, result, auth>>
    /\ roundTrip' = NoRoundTrip

----------------------------------------------------------------------------
(* SinglePageOnboarding *)

SinglePage_format(field, value) ==
    CASE field = "cardNumber" -> formatCardNumber(value)
      [] field = "expiryDate" -> formatExpiryDate(value)
      [] field = "cvv" -> formatCvv(value)
      [] OTHER -> value

SinglePage_handleInputChange ==
    /\ view = "single"
    /\ \E field \in SinglePageEdited : \E value \in InputValues(field) :
        formData' = updateFormData(SectionOf(field), field,
                                   SinglePage_format(field, value))
    /\ UNCHANGED <<view, currentStep, errors, touched, isSubmitting, submitError,
                   pending, lastOutcome, blurredOrSubmitted, now>>
    /\ UNCHANGED <<arg, result, auth>>
    /\ roundTrip' = NoRoundTrip

\* the terms checkbox: updateFormData('termsAccepted', '', e.target.checked)
SinglePage_termsChange ==
    /\ view = "single"
    /\ formData' = [formData EXCEPT !.termsAccepted = ~formData.termsAccepted]
    /\ UNCHANGED <<view, currentStep, errors, touched, isSubmitting, submitError,
                   pending, lastOutcome, blurredOrSubmitted, now>>
    /\ UNCHANGED <<arg, result, auth>>
    /\ roundTrip' = NoRoundTrip

\* the submit button: disabled={isSubmitting}
SinglePage_submitEnabled == view = "single" /\ ~isSubmitting

\* handleSubmit up to its await
SinglePage_handleSubmit ==
    /\ SinglePage_submitEnabled
    /\ LET newErrors == SinglePage_validateForm(formData)
       IN  /\ errors' = newErrors
           /\ submitError' = null
           /\ blurredOrSubmitted' = ErrorKeys
           /\ IF ~IsValid(newErrors)
              THEN /\ isSubmitting' = FALSE
                   /\ UNCHANGED <<pending, lastOutcome>>
              ELSE /\ pending < MaxPending
                   /\ isSubmitting' = TRUE
                   /\ pending' = pending + 1
                   /\ lastOutcome' = "pending"
    /\ UNCHANGED <<view, currentStep, formData, touched, now>>
    /\ UNCHANGED <<arg, result, auth>>
    /\ roundTrip' = NoRoundTrip

\* fault: no finally block, isSubmitting is never reset
SinglePage_handleSubmit_resume_NoFinally ==
    /\ view = "single"
    /\ pending > 0
    /\ pending' = pending - 1
    /\ lastOutcome' = "success"
    /\ UNCHANGED <<view, currentStep, formData, errors, touched, isSubmitting,
                   submitError, blurredOrSubmitted, now>>
    /\ UNCHANGED <<arg, result, auth>>
    /\ roundTrip' = NoRoundTrip

\* handleSubmit from its await to the end: alert, catch, finally
SinglePage_handleSubmit_resume ==
    /\ view = "single"
    /\ pending > 0
    /\ pending' = pending - 1
    /\ IF PromiseOutcome = "resolved"
       THEN lastOutcome' = "success" /\ UNCHANGED submitError
       ELSE lastOutcome' = "error" /\ submitError' = SubmitErrorMessage
    /\ isSubmitting' = FALSE
    /\ UNCHANGED <<view, currentStep, formData, errors, touched, blurredOrSubmitted, now>>
    /\ UNCHANGED <<arg, result, auth>>
    /\ roundTrip' = NoRoundTrip

----------------------------------------------------------------------------

Next ==
    \/ PersonalInfoStep_handleInputChange
    \/ PersonalInfoStep_handleFieldBlur
    \/ PersonalInfoStep_handleSubmit
    \/ AccountSetupStep_handleInputChange
    \/ AccountSetupStep_handleFieldBlur
    \/ AccountSetupStep_handleSubmit
    \/ BillingAddressStep_handleInputChange
    \/ BillingAddressStep_handleFieldBlur
    \/ BillingAddressStep_handleSubmit
    \/ PaymentInfoStep_handleInputChange
    \/ PaymentInfoStep_handleFieldBlur
    \/ PaymentInfoStep_handleSubmit
    \/ Step_onPrevious
    \/ TermsConfirmationStep_onUpdate
    \/ TermsConfirmationStep_handleSubmit
    \/ OnboardingFlow_handleSubmit_resume
    \/ SinglePage_handleInputChange
    \/ SinglePage_termsChange
    \/ SinglePage_handleSubmit
    \/ SinglePage_handleSubmit_resume

Spec == Init /\ [][Next]_vars

\* the timer of the simulated account-creation call fires
FairSpec ==
    /\ Spec
    /\ WF_vars(OnboardingFlow_handleSubmit_resume)
    /\ WF_vars(SinglePage_handleSubmit_resume)

----------------------------------------------------------------------------
(* The validators and formatters on their own: a call has an argument,    *)
(* drawn in the initial state from the values listed here, and the action *)
(* of the function called records what it returns.                        *)

flowVars == <<view, currentStep, formData, errors, touched, isSubmitting,
              submitError, pending, lastOutcome, blurredOrSubmitted, now,
              roundTrip>>

\* passwords meeting every subset of PASSWORD_CRITERIA that matters: none,
\* one, all five, all but one of each kind
PasswordInputs ==
    {<<>>,
     <<"a", "b", "c", "d", "e", "f">>,
     <<"A", "b", "c", "d", "e", "f", "1", "!">>,
     <<"a", "b", "c", "d", "e", "f", "1", "!">>,
     <<"A", "B", "C", "D", "E", "F", "1", "!">>,
     <<"A", "b", "c", "d", "e", "f", "g", "!">>,
     <<"A", "b", "c", "d", "e", "f", "g", "1">>,
     <<"A", "b", "c", "d", "e", "1", "!">>,
     <<"A", "b", "1", "!">>,
     <<"1", "2", "3", "4", "5", "6", "7", "8">>,
     <<"A", "b", "c", "d", "e", "f", "1", " ">>,
     <<"A", "b", "c", "d", "e", "f", "1", "!", "x">>,
     <<"a", "b", "c", "d", "e", "f", "g", "1">>}

\* AccountSetupStep.validateForm reads data.password, data.confirmPassword
AccountSetupCalls ==
    {[fn |-> "AccountSetupStep.validateForm",
      data |-> [password |-> p, confirmPassword |-> c]] :
        p \in PasswordInputs, c \in PasswordInputs}

AccountSetupStep_validateForm_call ==
    /\ arg.fn = "AccountSetupStep.validateForm"
    /\ result = NoCall
    /\ result' = [fn |-> arg.fn, value |-> AccountSetup_validateForm(arg.data)]
    /\ UNCHANGED <<flowVars, arg, auth>>

\* how many trailing digits of a card number are varied over 0..9
VariedDigits == 2

\* the leading digits of the varied card numbers
CardPrefix == <<"4", "1", "1", "1", "1", "1", "1", "1", "1", "1", "1", "1", "1", "1">>

\* 16-digit strings: CardPrefix followed by every choice of last digits;
\* one in ten passes the Luhn check
VariedCardNumbers ==
    {CardPrefix \o [i \in 1..VariedDigits |-> t[i]] :
        t \in [1..VariedDigits -> Digits]}

\* empty, blank, formatted with spaces, 13 digits (valid and not), 12, 19
\* and 20 digits with a Luhn sum divisible by 10, other characters,
\* surrounding and inner whitespace
OtherCardNumbers ==
    {<<>>,
     <<" ">>,
     <<"4", "1", "1", "1", " ", "1", "1", "1", "1", " ", "1", "1", "1", "1", " ", "1", "1", "1", "1">>,
     <<"4", "1", "1", "1", " ", "1", "1", "1", "1", " ", "1", "1", "1", "1", " ", "1", "1", "1", "2">>,
     <<"4", "2", "2", "2", "2", "2", "2", "2", "2", "2", "2", "2", "2">>,
     <<"4", "2", "2", "2", "2", "2", "2", "2", "2", "2", "2", "2", "3">>,
     <<"4", "1", "1", "1", "1", "1", "1", "1", "1", "1", "1", "7">>,
     <<"4", "1", "1", "1", "1", "1", "1", "1", "1", "1", "1", "1", "1", "1", "1", "1", "1", "1", "0">>,
     <<"4", "1", "1", "1", "1", "1", "1", "1", "1", "1", "1", "1", "1", "1", "1", "1", "1", "1", "1", "5">>,
     <<"4", "1", "1", "1", "-", "1", "1", "1", "1", "-", "1", "1", "1", "1", "-", "1", "1", "1", "1">>,
     <<"4", "1", "1", "1", "1", "1", "1", "1", "1", "1", "1", "1", "1", "1", "1", "a">>,
     <<" ", "4", "1", "1", "1", "1", "1", "1", "1", "1", "1", "1", "1", "1", "1", "1", "1", " ">>,
     <<"4", "1", "1", "1", "\t", "1", "1", "1", "1", " ", "1", "1", "1", "1", " ", "1", "1", "1", "1">>}

CardNumberInputs == VariedCardNumbers \cup OtherCardNumbers

isValidCardNumberCalls ==
    {[fn |-> "isValidCardNumber", value |-> v] : v \in CardNumberInputs}

isValidCardNumber_call ==
    /\ arg.fn = "isValidCardNumber"
    /\ result = NoCall
    /\ result' = [fn |-> arg.fn, value |-> isValidCardNumber(arg.value)]
    /\ UNCHANGED <<flowVars, arg, auth>>

\* PaymentInfoStep.validateField('cardNumber', value)
ValidateCardNumberCalls ==
    {[fn |-> "PaymentInfoStep.validateField", field |-> "cardNumber",
      value |-> v, date |-> Today] : v \in CardNumberInputs}

PaymentInfoStep_validateField_call ==
    /\ arg.fn = "PaymentInfoStep.validateField"
    /\ result = NoCall
    /\ result' = [fn |-> arg.fn,
                  value |-> PaymentInfo_validateField(arg.date, arg.field, arg.value)]
    /\ UNCHANGED <<flowVars, arg, auth>>

\* MM/YY values on both sides of each check: well and badly formed, month
\* 00, 12, 13, 99, years before, equal to and after the current one
ExpiryDateInputs ==
    {<<>>,
     <<" ">>,
     <<"1", "2", "/", "3", "0">>,
     <<"1", "3", "/", "3", "0">>,
     <<"0", "0", "/", "3", "0">>,
     <<"1", "1", "/", "2", "6">>,
     <<"1", "0", "/", "2", "6">>,
     <<"1", "2", "/", "2", "5">>,
     <<"0", "1", "/", "2", "7">>,
     <<"0", "1", "/", "2", "6">>,
     <<"9", "9", "/", "9", "9">>,
     <<"1", "2", "3", "0">>,
     <<"1", "2", "/", "3">>,
     <<"a", "b", "/", "c", "d">>,
     <<"1", "2", "-", "3", "0">>,
     <<"1", "2", "/", "3", "0", " ">>,
     <<"1", "/", "3", "0", "0">>}

\* values of new Date(): November 2026, January 2026, December 2030
Dates == {Today, <<26, 1>>, <<30, 12>>}

\* PaymentInfoStep.validateField('expiryDate', value)
ValidateExpiryDateCalls ==
    {[fn |-> "PaymentInfoStep.validateField", field |-> "expiryDate",
      value |-> v, date |-> d] : v \in ExpiryDateInputs, d \in Dates}

\* SinglePageOnboarding.validateForm on a form filled in validly, the terms
\* accepted, but for its expiry date
SinglePageExpiryCalls ==
    {[fn |-> "SinglePageOnboarding.validateForm",
      data |-> [FilledForm EXCEPT !.paymentInfo.expiryDate = v,
                                  !.termsAccepted = TRUE],
      date |-> d] : v \in ExpiryDateInputs, d \in Dates}

SinglePage_validateForm_call ==
    /\ arg.fn = "SinglePageOnboarding.validateForm"
    /\ result = NoCall
    /\ result' = [fn |-> arg.fn, value |-> SinglePage_validateForm(arg.data)]
    /\ UNCHANGED <<flowVars, arg, auth>>

\* ZIP and postal codes: 4, 5, 6, 9 digits, ZIP+4 well and badly formed,
\* surrounding spaces, letters, two and three characters
ZipCodeInputs ==
    {<<>>,
     <<" ">>,
     <<"1", "2", "3", "4">>,
     <<"1", "2", "3", "4", "5">>,
     <<"1", "2", "3", "4", "5", "-", "6", "7", "8", "9">>,
     <<"1", "2", "3", "4", "5", "-", "6", "7", "8">>,
     <<"1", "2", "3", "4", "5", "-", "6", "7", "8", "9", "0">>,
     <<"1", "2", "3", "4", "5", "6">>,
     <<"1", "2", "3", "4", "5", "6", "7", "8", "9">>,
     <<"1", "2", "3", "4", "5", " ">>,
     <<" ", "1", "2", "3", "4", "5">>,
     <<"1", "2", "3", "4", "a">>,
     <<"1", "2">>,
     <<"a", "b">>,
     <<"a", "b", "c">>,
     <<" ", "a", "b", " ">>,
     <<"A", "1", "B", " ", "2", "C", "3">>,
     <<"1", "2", "3", "4", "5", " ", "6", "7", "8", "9">>}

\* BillingAddressStep.validateField('zipCode', value), the component
\* rendered with data.country
ValidateZipCodeCalls ==
    {[fn |-> "BillingAddressStep.validateField", field |-> "zipCode",
      data |-> [FilledForm.billingAddress EXCEPT !.country = c],
      value |-> v] : v \in ZipCodeInputs, c \in TypedCountry}

BillingAddressStep_validateField_call ==
    /\ arg.fn = "BillingAddressStep.validateField"
    /\ result = NoCall
    /\ result' = [fn |-> arg.fn,
                  value |-> BillingAddress_validateField(arg.data, arg.field,
                                                         arg.value)]
    /\ UNCHANGED <<flowVars, arg, auth>>

\* what may be typed or pasted into the card-number input: no digit, 1 to
\* 21 digits, digits mixed with spaces, dashes and letters, already
\* formatted values
FormatCardNumberInputs ==
    {<<>>,
     <<"1">>,
     <<"1", "2", "3", "4">>,
     <<"1", "2", "3", "4", "5">>,
     <<"1", "2", "3", "4", "5", "6", "7", "8">>,
     <<"4", "1", "1", "1", "1", "1", "1", "1", "1", "1", "1", "1", "1", "1", "1", "1">>,
     <<"4", "1", "1", "1", "1", "1", "1", "1", "1", "1", "1", "1", "1", "1", "1", "1", "2">>,
     <<"4", "1", "1", "1", "1", "1", "1", "1", "1", "1", "1", "1", "1", "1", "1", "1", "2", "2", "2">>,
     <<"4", "1", "1", "1", "1", "1", "1", "1", "1", "1", "1", "1", "1", "1", "1", "1", "2", "2", "2", "2", "3">>,
     <<"4", "1", "1", "1", " ", "1", "1", "1", "1", " ", "1", "1", "1", "1", " ", "1", "1", "1", "1">>,
     <<"4", "1", "1", "1", " ", "1", "1", "1", "1", " ", "1", "1", "1", "1", " ", "1", "1", "1", "1", " ">>,
     <<"4", "1", "1", "1", "-", "1", "1", "1", "1", "-", "1", "1", "1", "1", "-", "1", "1", "1", "1">>,
     <<" ", " ", "4", "1", "a", "1", "1">>,
     <<"a", "b", "c">>,
     <<"4", "1", "1", "1", " ", "1", "1", "1", "1", " ", "1", "1", "1", "1", " ", "1", "1", "1", "1", " ", "2">>,
     <<"4", " ", "1", " ", "1", " ", "1", " ", "1">>,
     <<" ", "1", "2", " ", "3", "4", " ", "5">>}
    \cup VariedCardNumbers

formatCardNumberCalls ==
    {[fn |-> "formatCardNumber", value |-> v] : v \in FormatCardNumberInputs}

formatCardNumber_call ==
    /\ arg.fn = "formatCardNumber"
    /\ result = NoCall
    /\ result' = [fn |-> arg.fn, value |-> formatCardNumber(arg.value)]
    /\ UNCHANGED <<flowVars, arg, auth>>

\* what may be typed into the expiry input: 0 to 6 digits, with and
\* without slash, letters and spaces, months and years of no calendar
FormatExpiryDateInputs ==
    {<<>>,
     <<"1">>,
     <<"1", "2">>,
     <<"1", "2", "3">>,
     <<"1", "2", "2", "5">>,
     <<"1", "2", "/", "2", "5">>,
     <<"1", "2", "2", "5", "3", "4">>,
     <<"1", "a", "2", "b", "2", "5">>,
     <<"a", "b", "c">>,
     <<"1", "/", "2">>,
     <<"9", "9", "9", "9">>,
     <<"0", "0", "0", "0">>,
     <<" ", "1", " ", "2", " ">>,
     <<"1", "2", "/", "2">>,
     <<"1", "2", "/">>,
     <<"/">>}

formatExpiryDateCalls ==
    {[fn |-> "formatExpiryDate", value |-> v] : v \in FormatExpiryDateInputs}

formatExpiryDate_call ==
    /\ arg.fn = "formatExpiryDate"
    /\ result = NoCall
    /\ result' = [fn |-> arg.fn, value |-> formatExpiryDate(arg.value)]
    /\ UNCHANGED <<flowVars, arg, auth>>

passwordStrengthCalls ==
    {[fn |-> "getPasswordStrength", value |-> v] : v \in PasswordInputs}

\* passwordStrength = getPasswordStrength(data.password);
\* strengthDisplay = getPasswordStrengthDisplay(passwordStrength)
getPasswordStrength_call ==
    /\ arg.fn = "getPasswordStrength"
    /\ result = NoCall
    /\ result' = [fn |-> arg.fn,
                  value |-> getPasswordStrength(arg.value),
                  label |-> getPasswordStrengthDisplay(
                                getPasswordStrength(arg.value))]
    /\ UNCHANGED <<flowVars, arg, auth>>

\* how long the digit strings given to detectCardType are at most
DetectLen == 3

\* every digit string of at most DetectLen digits
ShortDigitStrings ==
    UNION {[1..n -> Digits] : n \in 0..DetectLen}

\* card numbers as stored (with spaces), four-digit beginnings, beginnings
\* that hold another type's prefix further in, other characters
OtherDetectInputs ==
    {<<"4", " ", "1", "1", "1">>,
     <<"5", " ", "1">>,
     <<"2", " ", "2">>,
     <<"3", " ", "4">>,
     <<"6", " ", "0", "1", "1">>,
     <<"6", " ", "5">>,
     <<" ", "4">>,
     <<"4", "2", "2", "5">>,
     <<"4", "5", "1", "2">>,
     <<"6", "0", "1", "1", " ", "2", "2">>,
     <<"5", "1", "3", "4">>,
     <<"4", "6", "5", "0">>,
     <<"6", "0", " ", "1", "1">>,
     <<"6", "0", "1", "2">>,
     <<"6", "0", "1">>,
     <<"3", "4", "2", "2">>,
     <<"a", "4">>,
     <<"4", "a">>}

DetectInputs == ShortDigitStrings \cup OtherDetectInputs

detectCardTypeCalls ==
    {[fn |-> "detectCardType", value |-> v] : v \in DetectInputs}

\* cardType = detectCardType(data.cardNumber)
detectCardType_call ==
    /\ arg.fn = "detectCardType"
    /\ result = NoCall
    /\ result' = [fn |-> arg.fn, value |-> detectCardType(arg.value)]
    /\ UNCHANGED <<flowVars, arg, auth>>

Calls ==
    AccountSetupCalls \cup isValidCardNumberCalls \cup ValidateCardNumberCalls
    \cup ValidateExpiryDateCalls \cup SinglePageExpiryCalls
    \cup ValidateZipCodeCalls \cup formatCardNumberCalls
    \cup formatExpiryDateCalls \cup passwordStrengthCalls
    \cup detectCardTypeCalls

FnInit ==
    /\ view = "functions"
    /\ currentStep = 0
    /\ formData = EmptyForm
    /\ errors = NoErrors
    /\ touched = NoneTouched
    /\ isSubmitting = FALSE
    /\ submitError = null
    /\ pending = 0
    /\ lastOutcome = "none"
    /\ blurredOrSubmitted = {}
    /\ now = Today
    /\ roundTrip = NoRoundTrip
    /\ arg \in Calls
    /\ result = NoCall
    /\ auth = AuthUnmounted

FnNext ==
    \/ AccountSetupStep_validateForm_call
    \/ isValidCardNumber_call
    \/ PaymentInfoStep_validateField_call
    \/ SinglePage_validateForm_call
    \/ BillingAddressStep_validateField_call
    \/ formatCardNumber_call
    \/ formatExpiryDate_call
    \/ getPasswordStrength_call
    \/ detectCardType_call

FnSpec == FnInit /\ [][FnNext]_vars

----------------------------------------------------------------------------
(* SignInForm and ForgotPasswordForm *)

AuthTypedEmail ==
    {<<>>,
     <<"a", "@", "b">>,
     <<"a", "@", "b", ".", "c">>,
     <<"a", " ", "@", "b", ".", "c">>,
     <<"x", "@", "y", ".", "z">>}

AuthTypedPassword == {<<>>, <<"p", "w">>}

AuthNoErrors == [email |-> null, password |-> null, general |-> null]

\* SignInForm.validateForm: newErrors
SignInForm_validateForm(data) ==
    [email |-> IF data.email = <<>> THEN "Email is required"
               ELSE IF ~EmailRegexTest(data.email)
               THEN "Please enter a valid email address"
               ELSE null,
     password |-> IF data.password = <<>> THEN "Password is required" ELSE null,
     general |-> null]

\* ForgotPasswordForm.validateForm: newErrors
ForgotPasswordForm_validateForm(data) ==
    [email |-> IF data.email = <<>> THEN "Email is required"
               ELSE IF ~EmailRegexTest(data.email)
               THEN "Please enter a valid email address"
               ELSE null,
     password |-> null,
     general |-> null]

\* Object.keys(newErrors).length === 0
AuthIsValid(newErrors) ==
    newErrors.email = null /\ newErrors.password = null /\ newErrors.general = null

AuthInit ==
    /\ view \in {"signin", "forgot-password"}
    /\ currentStep = 0
    /\ formData = EmptyForm
    /\ errors = NoErrors
    /\ touched = NoneTouched
    /\ isSubmitting = FALSE
    /\ submitError = null
    /\ pending = 0
    /\ lastOutcome = "none"
    /\ blurredOrSubmitted = {}
    /\ now = Today
    /\ roundTrip = NoRoundTrip
    /\ arg = NoCall
    /\ result = NoCall
    /\ auth = AuthUnmounted

\* setFormData(prev => ({...prev, [field]: value})); if (errors[field]) clear it
SignInForm_handleInputChange ==
    /\ view = "signin"
    /\ \E field \in {"email", "password"} :
       \E value \in (IF field = "email" THEN AuthTypedEmail ELSE AuthTypedPassword) :
        auth' = [auth EXCEPT !.formData[field] = value, !.errors[field] = null]
    /\ UNCHANGED <<flowVars, arg, result>>

\* onClick={() => setShowPassword(!showPassword)}
SignInForm_toggleShowPassword ==
    /\ view = "signin"
    /\ auth' = [auth EXCEPT !.showPassword = ~auth.showPassword]
    /\ UNCHANGED <<flowVars, arg, result>>

\* the submit button: disabled={isSubmitting}
AuthSubmitEnabled == ~auth.isSubmitting

\* fault: the submission starts whatever validateForm returns
AuthSubmit_NoValidation(newErrors) ==
    auth' = [auth EXCEPT !.errors = AuthNoErrors,
                         !.isSubmitting = TRUE,
                         !.call = "pending",
                         !.submitted = auth.formData]

\* if (!validateForm()) return; setIsSubmitting(true); setErrors({});
\* up to the await
AuthSubmit(newErrors) ==
    IF ~AuthIsValid(newErrors)
    THEN auth' = [auth EXCEPT !.errors = newErrors]
    ELSE auth' = [auth EXCEPT !.errors = AuthNoErrors,
                              !.isSubmitting = TRUE,
                              !.call = "pending",
                              !.submitted = auth.formData]

SignInForm_handleSubmit ==
    /\ view = "signin"
    /\ AuthSubmitEnabled
    /\ AuthSubmit(SignInForm_validateForm(auth.formData))
    /\ UNCHANGED <<flowVars, arg, result>>

\* handleSubmit from its await to the end: alert, catch, finally
SignInForm_handleSubmit_resume ==
    /\ view = "signin"
    /\ auth.call = "pending"
    /\ auth' = [auth EXCEPT
                  !.call = IF PromiseOutcome = "resolved" THEN "success" ELSE "error",
                  !.errors = IF PromiseOutcome = "resolved" THEN auth.errors
                             ELSE [email |-> null, password |-> null,
                                   general |-> "Sign in failed. Please check your credentials and try again."],
                  !.isSubmitting = FALSE]
    /\ UNCHANGED <<flowVars, arg, result>>

\* setFormData({ email: value }); if (errors.email) clear it
ForgotPasswordForm_handleInputChange ==
    /\ view = "forgot-password"
    /\ ~auth.isEmailSent
    /\ \E value \in AuthTypedEmail :
        auth' = [auth EXCEPT !.formData.email = value, !.errors.email = null]
    /\ UNCHANGED <<flowVars, arg, result>>

ForgotPasswordForm_handleSubmit ==
    /\ view = "forgot-password"
    /\ ~auth.isEmailSent
    /\ AuthSubmitEnabled
    /\ AuthSubmit(ForgotPasswordForm_validateForm(auth.formData))
    /\ UNCHANGED <<flowVars, arg, result>>

\* handleSubmit from its await to the end: setIsEmailSent(true), catch, finally
ForgotPasswordForm_handleSubmit_resume ==
    /\ view = "forgot-password"
    /\ auth.call = "pending"
    /\ auth' = [auth EXCEPT
                  !.call = IF PromiseOutcome = "resolved" THEN "success" ELSE "error",
                  !.isEmailSent = IF PromiseOutcome = "resolved" THEN TRUE
                                  ELSE auth.isEmailSent,
                  !.errors = IF PromiseOutcome = "resolved" THEN auth.errors
                             ELSE [email |-> null, password |-> null,
                                   general |-> "Failed to send reset email. Please try again."],
                  !.isSubmitting = FALSE]
    /\ UNCHANGED <<flowVars, arg, result>>

\* 'Use a different email address':
\* setIsEmailSent(false); setFormData({ email: '' })
ForgotPasswordForm_useDifferentEmail ==
    /\ view = "forgot-password"
    /\ auth.isEmailSent
    /\ auth' = [auth EXCEPT !.isEmailSent = FALSE, !.formData.email = <<>>]
    /\ UNCHANGED <<flowVars, arg, result>>

AuthNext ==
    \/ SignInForm_handleInputChange
    \/ SignInForm_toggleShowPassword
    \/ SignInForm_handleSubmit
    \/ SignInForm_handleSubmit_resume
    \/ ForgotPasswordForm_handleInputChange
    \/ ForgotPasswordForm_handleSubmit
    \/ ForgotPasswordForm_handleSubmit_resume
    \/ ForgotPasswordForm_useDifferentEmail

AuthSpec == AuthInit /\ [][AuthNext]_vars

----------------------------------------------------------------------------
(* What the claims speak of *)

\* the errors validateForm of the step rendered at index `step` computes on fd
StepErrors(step, fd, date) ==
    CASE step = 0 -> PersonalInfo_validateForm(fd.personalInfo)
      [] step = 1 -> AccountSetup_validateForm(fd.accountSetup)
      [] step = 2 -> BillingAddress_validateForm(fd.billingAddress)
      [] step = 3 -> PaymentInfo_validateForm(date, fd.paymentInfo)
      [] OTHER -> NoErrors

\* a `next`: the form of a data step is submitted (its Continue button)
StepNextAttempt ==
    \/ PersonalInfoStep_handleSubmit
    \/ AccountSetupStep_handleSubmit
    \/ BillingAddressStep_handleSubmit
    \/ PaymentInfoStep_handleSubmit

FieldValue(fd, field) == fd[SectionOf(field)][field]

\* the message the validator of `field` gives on fd, on the mounted page
FieldValidator(field, fd, date) ==
    IF view = "single" THEN SinglePage_validateForm(fd)[field]
    ELSE CASE field \in PersonalFields -> StepErrors(0, fd, date)[field]
           [] field \in AccountFields -> StepErrors(1, fd, date)[field]
           [] field \in BillingFields -> StepErrors(2, fd, date)[field]
           [] field \in PaymentFields -> StepErrors(3, fd, date)[field]

----------------------------------------------------------------------------
(* C1: in the multi-step flow the step index moves from k to k+1 only      *)
(* through a `next` taken while every required field of step k passes its *)
(* validator on the current form data; a `next` attempted while a field   *)
(* of the current step fails leaves the index unchanged; the terms step   *)
(* offers no `next`.                                                      *)
C1_NextOnlyWhenStepValid ==
    /\ [](view = "flow" /\ StepId(currentStep) = "terms-confirmation"
            => ~ENABLED StepNextAttempt)
    /\ [][view = "flow" =>
            /\ currentStep' = currentStep + 1 =>
                  /\ StepNextAttempt
                  /\ IsValid(StepErrors(currentStep, formData, now))
            /\ StepNextAttempt /\ ~IsValid(StepErrors(currentStep, formData, now))
                  => currentStep' = currentStep]_vars

\* a `next` succeeded on personal-info and one failed on account-setup
C1_Witness ==
    /\ view = "flow" /\ currentStep = 1
    /\ errors["password"] = "Password is required"
    /\ \A f \in AccountFields : touched[f]

(* C2 as claimed: `previous` is permitted in every reachable state of the  *)
(* multi-step flow whose step is not personal-info, a submission in       *)
(* flight on the terms step included.                                     *)
C2_PreviousAlwaysPermitted ==
    view = "flow" /\ currentStep # 0 => ENABLED Step_onPrevious

(* C2, amended: `previous` is permitted exactly in the states of the flow  *)
(* whose step is not personal-info and in which no submission is in       *)
(* flight; it moves the index to the prior step, leaves every field of    *)
(* the form data as it was and the step it arrives on shows no error.     *)
C2_PreviousPermittedUnlessSubmitting ==
    /\ [](view = "flow" =>
            (ENABLED Step_onPrevious <=> currentStep # 0 /\ ~isSubmitting))
    /\ [][view = "flow" /\ currentStep' < currentStep =>
            /\ currentStep' = currentStep - 1
            /\ formData' = formData
            /\ errors' = NoErrors]_vars

\* a `previous` was taken from billing-address with data entered there
C2_Witness ==
    /\ view = "flow"
    /\ roundTrip.phase = "previous" /\ roundTrip.step = 2
    /\ currentStep = 1
    /\ formData.billingAddress.city # <<>>

(* C3: in the multi-step flow a submission starts only on the terms step   *)
(* and only while termsAccepted is true; with the box unchecked no        *)
(* submit can be taken, and with it checked (and none in flight) it can.  *)
C3_SubmitNeedsTerms ==
    /\ [][view = "flow" /\ ((isSubmitting' /\ ~isSubmitting) \/ pending' > pending) =>
            /\ StepId(currentStep) = "terms-confirmation"
            /\ formData.termsAccepted]_vars
    /\ [](view = "flow" /\ StepId(currentStep) = "terms-confirmation" =>
            /\ ~formData.termsAccepted =>
                 ~ENABLED TermsConfirmationStep_handleSubmit
            /\ formData.termsAccepted /\ ~isSubmitting =>
                 ENABLED TermsConfirmationStep_handleSubmit)
    /\ [](view = "flow" /\ ~formData.termsAccepted /\ lastOutcome = "none"
            => ~isSubmitting)

\* a submission is in flight on the terms step, the box checked
C3_Witness ==
    /\ view = "flow" /\ currentStep = 4
    /\ isSubmitting /\ pending = 1 /\ formData.termsAccepted

(* C4: in the multi-step flow, `previous` from step k > 0 followed at once *)
(* by a successful `next` returns to step k with every field of           *)
(* OnboardingData equal to its value before the `previous`.               *)
C4_PreviousThenNextPreservesData ==
    view = "flow" /\ roundTrip.phase = "returned" =>
        /\ currentStep = roundTrip.step
        /\ formData = roundTrip.data

\* back on payment-info after previous and next, the entered data in place
C4_Witness ==
    /\ view = "flow"
    /\ roundTrip.phase = "returned" /\ roundTrip.step = 3
    /\ formData.paymentInfo.cardNumber # <<>>
    /\ formData.billingAddress.addressLine2 # <<>>

(* C5: the step index is an integer in 0..4, starts at 0, increases only   *)
(* by exactly 1 and through `next`, decreases only by exactly 1 and       *)
(* through `previous`.                                                    *)
C5_StepIndexLinear ==
    /\ currentStep = 0
    /\ [](currentStep \in 0..(NumSteps - 1))
    /\ [][/\ currentStep' > currentStep =>
                currentStep' = currentStep + 1 /\ StepNextAttempt
          /\ currentStep' < currentStep =>
                currentStep' = currentStep - 1 /\ Step_onPrevious]_vars

\* the last step was reached
C5_Witness == view = "flow" /\ currentStep = NumSteps - 1

(* C6: submitError is null in every reachable state of the multi-step     *)
(* flow and of the single-page variant.                                   *)
C6_SubmitErrorNull == submitError = null

\* a submission of the multi-step flow has run to its end
C6_Witness == view = "flow" /\ lastOutcome = "success" /\ ~isSubmitting

(* C7: once isSubmitting is true, if the delay timer fires, the success   *)
(* confirmation is eventually reported and isSubmitting returns to false, *)
(* in both pages.                                                         *)
C7_SubmissionCompletes ==
    isSubmitting ~> (~isSubmitting /\ lastOutcome = "success")

\* a submission of the single page has run to its end
C7_Witness == view = "single" /\ lastOutcome = "success" /\ ~isSubmitting

(* C8: a field carries an error message only if it has been blurred since *)
(* the component mounted or a submit of its step (form) has been          *)
(* attempted since then.                                                  *)
C8_ErrorsOnlyAfterBlurOrSubmit ==
    \A k \in ErrorKeys : errors[k] # null => k \in blurredOrSubmitted

\* an error shown after a blur alone, and typing elsewhere showed none
C8_Witness ==
    /\ view = "flow"
    /\ errors["email"] = "Please enter a valid email address"
    /\ blurredOrSubmitted = {"email"}
    /\ formData.personalInfo.firstName = <<"A">>

(* C9 as claimed: once a field has been touched, after each change of     *)
(* that field its error equals the result of its validator on the new     *)
(* value (the message when invalid, none when valid).                     *)
C9_ErrorRecomputedOnChange ==
    [][\A f \in FieldNames :
          touched[f] /\ FieldValue(formData', f) # FieldValue(formData, f)
              => errors'[f] = FieldValidator(f, formData', now)]_vars

(* C10 as claimed: for every OnboardingData with termsAccepted true the   *)
(* single-page validateForm accepts it if and only if the validateForm of *)
(* each of the four data steps accepts its section.                       *)
C10_SameValidation ==
    formData.termsAccepted =>
        (IsValid(SinglePage_validateForm(formData))
            <=> \A step \in 0..3 : IsValid(StepErrors(step, formData, now)))

(* C11: the account-setup step is accepted exactly when the password meets *)
(* all five criteria (at least 8 characters, an uppercase letter, a        *)
(* lowercase letter, a digit, a listed special character) and              *)
(* confirmPassword is non-empty and equal to password; otherwise the       *)
(* password error is 'Password is required' or 'Password must meet all    *)
(* security requirements' and the confirmation error is 'Password          *)
(* confirmation is required' or 'Passwords do not match'.                  *)
C11_AccountSetupAcceptance ==
    result.fn = "AccountSetupStep.validateForm" =>
        LET p == arg.data.password
            c == arg.data.confirmPassword
            allFive == /\ Len(p) >= 8
                       /\ \E i \in 1..Len(p) : p[i] \in Upper
                       /\ \E i \in 1..Len(p) : p[i] \in Lower
                       /\ \E i \in 1..Len(p) : p[i] \in Digits
                       /\ \E i \in 1..Len(p) : p[i] \in Specials
            e == result.value
        IN  /\ IsValid(e) <=> (allFive /\ c # <<>> /\ c = p)
            /\ e["password"] =
                  IF p = <<>> THEN "Password is required"
                  ELSE IF ~allFive
                       THEN "Password must meet all security requirements"
                       ELSE null
            /\ e["confirmPassword"] =
                  IF c = <<>> THEN "Password confirmation is required"
                  ELSE IF c # p THEN "Passwords do not match" ELSE null

\* a strong password with a different confirmation was refused
C11_Witness ==
    /\ result.fn = "AccountSetupStep.validateForm"
    /\ arg.data.password = <<"A", "b", "c", "d", "e", "f", "1", "!">>
    /\ arg.data.confirmPassword = <<"A", "b", "c", "d", "e", "f", "1", "!", "x">>
    /\ result.value["confirmPassword"] = "Passwords do not match"
    /\ result.value["password"] = null

\* the Luhn sum as the specification words it: digits taken right to left,
\* every second one from the second-to-last doubled, 9 subtracted from a
\* doubled value above 9
LuhnTotalRightToLeft(c) ==
    LET n == Len(c)
        term(k) == LET d == DigitVal[c[n - k + 1]]
                   IN  IF k % 2 = 1 THEN d
                       ELSE IF 2 * d > 9 THEN 2 * d - 9 ELSE 2 * d
        S[k \in 0..n] == IF k = 0 THEN 0 ELSE S[k - 1] + term(k)
    IN  S[n]

\* what the specification accepts as a card number
CardNumberAccepted(value) ==
    LET c == SelectSeq(value, LAMBDA ch : ch \notin Whitespace)
    IN  /\ \A i \in 1..Len(c) : c[i] \in Digits
        /\ Len(c) >= 13 /\ Len(c) <= 19
        /\ LuhnTotalRightToLeft(c) % 10 = 0

(* C12: the card-number validator accepts a value exactly when, with      *)
(* whitespace removed, it is all digits, 13 to 19 of them, and its Luhn   *)
(* sum is divisible by 10; a blank value gives 'Card number is required'  *)
(* and any other rejected value 'Please enter a valid card number'.       *)
C12_CardNumberValidator ==
    /\ result.fn = "isValidCardNumber" =>
            (result.value <=> CardNumberAccepted(arg.value))
    /\ result.fn = "PaymentInfoStep.validateField" /\ arg.field = "cardNumber" =>
            result.value =
                IF \A i \in 1..Len(arg.value) : arg.value[i] \in Whitespace
                THEN "Card number is required"
                ELSE IF CardNumberAccepted(arg.value) THEN null
                     ELSE "Please enter a valid card number"

\* twelve digits with a Luhn sum divisible by 10 were refused
C12_Witness ==
    /\ result.fn = "PaymentInfoStep.validateField" /\ arg.field = "cardNumber"
    /\ arg.value = <<"4", "1", "1", "1", "1", "1", "1", "1", "1", "1", "1", "7">>
    /\ LuhnTotalRightToLeft(arg.value) % 10 = 0
    /\ result.value = "Please enter a valid card number"

(* C13: when isValidCardNumber accepts a string of digits, it rejects     *)
(* every string that differs from it in exactly one digit;                *)
(* 4111111111111111 is accepted and 4111111111111112 is rejected.         *)
C13_SingleDigitChangeRejected ==
    result.fn = "isValidCardNumber" =>
        /\ result.value /\ (\A i \in 1..Len(arg.value) : arg.value[i] \in Digits)
              => \A i \in 1..Len(arg.value) : \A d \in Digits \ {arg.value[i]} :
                    ~isValidCardNumber([arg.value EXCEPT ![i] = d])
        /\ arg.value = <<"4", "1", "1", "1", "1", "1", "1", "1", "1", "1", "1", "1", "1", "1", "1", "1">> => result.value
        /\ arg.value = <<"4", "1", "1", "1", "1", "1", "1", "1", "1", "1", "1", "1", "1", "1", "1", "2">> => ~result.value

\* 4111111111111111 was accepted
C13_Witness ==
    /\ result.fn = "isValidCardNumber"
    /\ arg.value = <<"4", "1", "1", "1", "1", "1", "1", "1", "1", "1", "1", "1", "1", "1", "1", "1">>
    /\ result.value

\* the month and year an MM/YY value names
ExpiryMonth(value) == 10 * DigitVal[value[1]] + DigitVal[value[2]]

ExpiryYear(value) == 10 * DigitVal[value[4]] + DigitVal[value[5]]

\* two digits, '/', two digits
ExpiryWellFormed(value) ==
    /\ Len(value) = 5
    /\ value[3] = "/"
    /\ \A i \in {1, 2, 4, 5} : value[i] \in Digits

\* what the specification accepts as an expiry date on date = <<year mod
\* 100, month>>
ExpiryAccepted(value, date) ==
    /\ ExpiryWellFormed(value)
    /\ ExpiryMonth(value) \in 1..12
    /\ ~ \/ ExpiryYear(value) < date[1]
         \/ ExpiryYear(value) = date[1] /\ ExpiryMonth(value) < date[2]

\* the error the specification gives an expiry date, in its precedence
ExpiryErrorExpected(value, date) ==
    IF \A i \in 1..Len(value) : value[i] \in Whitespace
    THEN "Expiry date is required"
    ELSE IF ~ExpiryWellFormed(value) THEN "Please enter date as MM/YY"
    ELSE IF ExpiryMonth(value) \notin 1..12 THEN "Invalid month"
    ELSE IF ~ExpiryAccepted(value, date) THEN "Card has expired"
    ELSE null

(* C14 as claimed: an expiryDate is accepted exactly when it is two       *)
(* digits, '/', two digits, its month is in 1..12 and its (year, month)   *)
(* is not before the current one, with the errors in the precedence       *)
(* required, bad format, invalid month, expired; in the payment step and  *)
(* in the single page.                                                    *)
C14_ExpiryAcceptance ==
    /\ result.fn = "PaymentInfoStep.validateField" /\ arg.field = "expiryDate" =>
            result.value = ExpiryErrorExpected(arg.value, arg.date)
    /\ result.fn = "SinglePageOnboarding.validateForm" =>
            (result.value["expiryDate"] = null
                <=> ExpiryAccepted(arg.data.paymentInfo.expiryDate, arg.date))

\* the length of value without its leading and trailing whitespace
TrimmedLength(value) ==
    LET inked == {i \in 1..Len(value) : value[i] \notin Whitespace}
    IN  IF inked = {} THEN 0
        ELSE (CHOOSE i \in inked : \A j \in inked : j <= i)
             - (CHOOSE i \in inked : \A j \in inked : i <= j) + 1

\* five digits, optionally followed by '-' and four digits
UsZipWellFormed(value) ==
    /\ Len(value) \in {5, 10}
    /\ \A i \in 1..5 : value[i] \in Digits
    /\ Len(value) = 10 =>
          value[6] = "-" /\ \A i \in 7..10 : value[i] \in Digits

C16_UsStateIsEnum ==
    /\ view = "flow" /\ currentStep > 2
    /\ formData.billingAddress.country = UnitedStates
    => formData.billingAddress.state \in US_STATES

\* the digits of value, in order
DigitsOf(value) == SelectSeq(value, LAMBDA ch : ch \in Digits)

(* C17: formatCardNumber removes every non-digit, keeps at most the first *)
(* 16 digits and returns them in groups of four separated by single       *)
(* spaces, with no leading or trailing space and at most 19 characters;   *)
(* formatting its result again gives the same result.                     *)
C17_FormatCardNumber ==
    result.fn = "formatCardNumber" =>
        LET out == result.value
            d == DigitsOf(arg.value)
            kept == SubSeq(d, 1, IF Len(d) < 16 THEN Len(d) ELSE 16)
        IN  /\ DigitsOf(out) = kept
            /\ Len(out) = Len(kept) + (IF kept = <<>> THEN 0 ELSE (Len(kept) - 1) \div 4)
            /\ \A i \in 1..Len(out) : (out[i] = " ") <=> (i % 5 = 0)
            /\ Len(out) <= 19
            /\ out # <<>> => out[1] # " " /\ out[Len(out)] # " "
            /\ formatCardNumber(out) = out

\* seventeen digits were cut to sixteen in four groups
C17_Witness ==
    /\ result.fn = "formatCardNumber"
    /\ arg.value = <<"4", "1", "1", "1", "1", "1", "1", "1", "1", "1", "1", "1", "1", "1", "1", "1", "2">>
    /\ result.value = <<"4", "1", "1", "1", " ", "1", "1", "1", "1", " ", "1", "1", "1", "1", " ", "1", "1", "1", "1">>

(* C18: formatExpiryDate removes every non-digit; with two or more digits *)
(* left it returns the first two, '/', and the next at most two ('1225'   *)
(* gives '12/25', '12' gives '12/'); with fewer it returns the digits     *)
(* ('1' gives '1'); the month and year are not validated.                 *)
C18_FormatExpiryDate ==
    result.fn = "formatExpiryDate" =>
        LET d == DigitsOf(arg.value)
        IN  /\ result.value =
                  IF Len(d) >= 2
                  THEN <<d[1], d[2], "/">>
                       \o SubSeq(d, 3, IF Len(d) < 4 THEN Len(d) ELSE 4)
                  ELSE d
            /\ arg.value = <<"1", "2", "2", "5">> => result.value = <<"1", "2", "/", "2", "5">>
            /\ arg.value = <<"1", "2">> => result.value = <<"1", "2", "/">>
            /\ arg.value = <<"1">> => result.value = <<"1">>
            /\ arg.value = <<"9", "9", "9", "9">> => result.value = <<"9", "9", "/", "9", "9">>

\* '12' became '12/'
C18_Witness ==
    /\ result.fn = "formatExpiryDate"
    /\ arg.value = <<"1", "2">>
    /\ result.value = <<"1", "2", "/">>

\* the criteria of the specification a password meets
CriteriaMet(p) ==
    {c \in {"length", "uppercase", "lowercase", "number", "special"} :
        CASE c = "length" -> Len(p) >= 8
          [] c = "uppercase" -> \E i \in 1..Len(p) : p[i] \in Upper
          [] c = "lowercase" -> \E i \in 1..Len(p) : p[i] \in Lower
          [] c = "number" -> \E i \in 1..Len(p) : p[i] \in Digits
          [] c = "special" -> \E i \in 1..Len(p) : p[i] \in Specials}

(* C19: the password-strength score is the number of the five criteria   *)
(* the password meets, each counted on its own (0 for the empty           *)
(* password); the label is Weak for 0 and 1, Fair for 2 and 3, Good for   *)
(* 4, Strong for 5; 'Abcdef1!' scores 5 (Strong), 'abcdef' 1 (Weak).      *)
C19_PasswordStrength ==
    result.fn = "getPasswordStrength" =>
        /\ result.value = Cardinality(CriteriaMet(arg.value))
        /\ result.label =
              CASE result.value \in {0, 1} -> "Weak"
                [] result.value \in {2, 3} -> "Fair"
                [] result.value = 4 -> "Good"
                [] result.value = 5 -> "Strong"
        /\ arg.value = <<>> => result.value = 0
        /\ arg.value = <<"A", "b", "c", "d", "e", "f", "1", "!">> =>
              result.value = 5 /\ result.label = "Strong"
        /\ arg.value = <<"a", "b", "c", "d", "e", "f">> =>
              result.value = 1 /\ result.label = "Weak"

\* a short password with the four other criteria scored 4, Good
C19_Witness ==
    /\ result.fn = "getPasswordStrength"
    /\ arg.value = <<"A", "b", "1", "!">>
    /\ result.value = 4 /\ result.label = "Good"

(* C20 as claimed: once the success confirmation of a submission has been *)
(* reported, the form data no longer holds the entered values and no      *)
(* further submission can start, in the flow and in the single page.      *)
C20_DataDiscardedAfterSuccess ==
    /\ [](lastOutcome = "success" => formData = EmptyForm)
    /\ [][lastOutcome = "success" => pending' <= pending]_vars

(* C21: a `next` (flow) or submit (single page) attempted on invalid data *)
(* records an error for exactly the fields whose validators fail and for  *)
(* no other, leaves the step index and every field of the form data      *)
(* unchanged, starts no account-creation call and leaves isSubmitting     *)
(* false.                                                                 *)
C21_ValidationFailureIsLocal ==
    [][LET failing == IF view = "single"
                      THEN SinglePage_validateForm(formData)
                      ELSE StepErrors(currentStep, formData, now)
       IN  (StepNextAttempt \/ SinglePage_handleSubmit) /\ ~IsValid(failing) =>
              /\ \A k \in ErrorKeys : errors'[k] = failing[k]
              /\ currentStep' = currentStep
              /\ formData' = formData
              /\ pending' = pending /\ lastOutcome' = lastOutcome
              /\ ~isSubmitting']_vars

\* a `next` failed on billing-address for the city alone, the ZIP code
\* typed under another country passing
C21_Witness ==
    /\ view = "flow" /\ currentStep = 2
    /\ blurredOrSubmitted = ErrorKeys
    /\ errors["city"] = "City is required"
    /\ \A k \in ErrorKeys \ {"city"} : errors[k] = null
    /\ formData.billingAddress.zipCode = <<"1", "2", "3", "4">>

\* s begins with the characters of prefix
StartsWith(s, prefix) ==
    Len(s) >= Len(prefix) /\ SubSeq(s, 1, Len(prefix)) = prefix

\* the card type the specification gives a number with whitespace removed
CardTypeExpected(c) ==
    IF StartsWith(c, <<"4">>) THEN "visa"
    ELSE IF \E d \in {"1", "2", "3", "4", "5"} : StartsWith(c, <<"5", d>>)
    THEN "mastercard"
    ELSE IF \E d \in {"2", "3", "4", "5", "6", "7"} : StartsWith(c, <<"2", d>>)
    THEN "mastercard"
    ELSE IF StartsWith(c, <<"3", "4">>) \/ StartsWith(c, <<"3", "7">>)
    THEN "amex"
    ELSE IF StartsWith(c, <<"6", "0", "1", "1">>) \/ StartsWith(c, <<"6", "5">>)
    THEN "discover"
    ELSE null

(* C22: detectCardType removes whitespace and returns the first type      *)
(* whose prefix matches, in the order visa (4), mastercard (51-55 or      *)
(* 22-27), amex (34 or 37), discover (6011 or 65), and no type when none  *)
(* matches, the empty string included.                                    *)
C22_DetectCardType ==
    result.fn = "detectCardType" =>
        /\ result.value =
              CardTypeExpected(SelectSeq(arg.value, LAMBDA ch : ch \notin Whitespace))
        /\ arg.value = <<>> => result.value = null

\* '6 011' was found to be discover, the space removed
C22_Witness ==
    /\ result.fn = "detectCardType"
    /\ arg.value = <<"6", " ", "0", "1", "1">>
    /\ result.value = "discover"

\* the types whose pattern matches the number, whitespace removed
MatchingTypes(cardNumber) ==
    {t \in {"visa", "mastercard", "amex", "discover"} :
        CardPatternTest(t, Drop(cardNumber, Whitespace))}

\* the orders in which the four patterns can be checked
PatternOrders ==
    {o \in [1..4 -> {"visa", "mastercard", "amex", "discover"}] :
        \A i, j \in 1..4 : i # j => o[i] # o[j]}

(* C23 as claimed: among the numbers detectCardType is called with, some  *)
(* digit string matches more than one of the four patterns, so that       *)
(* checking them in another order would give it another card type.        *)
C23_OrderAffectsResult ==
    result.fn = "detectCardType" =>
        \E v \in DetectInputs :
            /\ Cardinality(MatchingTypes(v)) > 1
            /\ \E o \in PatternOrders :
                  FirstMatch(o, Drop(v, Whitespace)) # detectCardType(v)

(* C23, amended: no card number matches more than one of the four         *)
(* patterns, and detectCardType returns the same type whatever the order  *)
(* the patterns are checked in.                                           *)
C23_OrderDoesNotMatter ==
    result.fn = "detectCardType" =>
        /\ Cardinality(MatchingTypes(arg.value)) <= 1
        /\ \A o \in PatternOrders :
              FirstMatch(o, Drop(arg.value, Whitespace)) = result.value

\* '4225' begins as a visa number and holds 22 further in: visa only
C23_Witness ==
    /\ result.fn = "detectCardType"
    /\ arg.value = <<"4", "2", "2", "5">>
    /\ MatchingTypes(arg.value) = {"visa"}
    /\ result.value = "visa"

\* card number as stored: groups of four digits, one space between groups
CardNumberWellFormed(c) ==
    /\ Len(c) <= 19
    /\ \A i \in 1..Len(c) : IF i % 5 = 0 THEN c[i] = " " ELSE c[i] \in Digits
    /\ c # <<>> => c[Len(c)] # " "
    /\ Len(DigitsOf(c)) <= 16

\* expiry date as stored: fewer than two digits, or MM/ and up to two digits
ExpiryDateWellFormed(e) ==
    /\ Len(e) <= 5
    /\ \/ Len(e) < 2 /\ \A i \in 1..Len(e) : e[i] \in Digits
       \/ /\ Len(e) >= 3 /\ e[3] = "/"
          /\ \A i \in 1..Len(e) : i # 3 => e[i] \in Digits

\* security code as stored: digits only, four at most
CvvWellFormed(v) ==
    Len(v) <= 4 /\ \A i \in 1..Len(v) : v[i] \in Digits

(* C24: the payment values stored are fixed points of their formatters:   *)
(* cardNumber is at most 16 digits in groups of four (19 characters at    *)
(* most), expiryDate is fewer than two digits or two digits, '/', and up  *)
(* to two digits (5 characters at most), cvv is digits only, 4 at most;   *)
(* and an error shown in the payment step is the validator's answer for   *)
(* the stored value, never for the string as typed.                       *)
C24_StoredPaymentValuesFormatted ==
    LET pay == formData.paymentInfo
    IN  /\ formatCardNumber(pay.cardNumber) = pay.cardNumber
        /\ CardNumberWellFormed(pay.cardNumber)
        /\ formatExpiryDate(pay.expiryDate) = pay.expiryDate
        /\ ExpiryDateWellFormed(pay.expiryDate)
        /\ formatCvv(pay.cvv) = pay.cvv
        /\ CvvWellFormed(pay.cvv)
        /\ view = "flow" /\ currentStep = 3 =>
              \A f \in {"cardNumber", "expiryDate", "cvv"} :
                  errors[f] \in {null, PaymentInfo_validateField(now, f, pay[f])}

\* '4111-1111-1111-1111 9', '13/305' and '12a345' were typed; what is
\* stored is formatted, and the expiry date's error is the stored value's
C24_Witness ==
    /\ view = "flow" /\ currentStep = 3
    /\ formData.paymentInfo.cardNumber = <<"4", "1", "1", "1", " ", "1", "1", "1", "1", " ", "1", "1", "1", "1", " ", "1", "1", "1", "1">>
    /\ formData.paymentInfo.expiryDate = <<"1", "3", "/", "3", "0">>
    /\ formData.paymentInfo.cvv = <<"1", "2", "3", "4">>
    /\ touched["cardNumber"] /\ errors["cardNumber"] = null
    /\ errors["expiryDate"] # null

(* C25: in the flow, with the date fixed, the data of every step below    *)
(* currentStep passes that step's validators; so a submission is started  *)
(* only with all four steps' data valid and termsAccepted true.           *)
C25_EarlierStepsValid ==
    /\ [](view = "flow" =>
            \A k \in 0..(currentStep - 1) : IsValid(StepErrors(k, formData, now)))
    /\ [][view = "flow" /\ pending' > pending =>
             /\ \A k \in 0..3 : IsValid(StepErrors(k, formData, now))
             /\ formData.termsAccepted]_vars

\* a submission in flight from the last step
C25_Witness ==
    /\ view = "flow" /\ currentStep = 4
    /\ isSubmitting /\ pending = 1
    /\ formData.billingAddress.country = Canada

(* C26: at most one submission is in flight at any time: while            *)
(* isSubmitting is true no second submission can start, in the flow or on *)
(* the single page, and every success reported ends a submission that     *)
(* was started while isSubmitting was false.                              *)
C26_OneSubmissionInFlight ==
    /\ [](pending \in {0, 1} /\ (pending = 1 <=> isSubmitting))
    /\ [][pending' > pending =>
             ~isSubmitting /\ pending = 0 /\ pending' = 1 /\ isSubmitting']_vars
    /\ [][isSubmitting => ~ENABLED TermsConfirmationStep_handleSubmit
                          /\ ~ENABLED SinglePage_handleSubmit]_vars
    /\ [][lastOutcome' = "success" /\ lastOutcome # "success" =>
             pending = 1 /\ pending' = 0 /\ isSubmitting /\ ~isSubmitting']_vars

\* a submission in flight on the single page
C26_Witness ==
    /\ view = "single"
    /\ isSubmitting /\ pending = 1
    /\ lastOutcome = "pending"
    /\ submitError = null
    /\ formData.accountSetup.password = <<"A", "b", "c", "d", "e", "f", "1", "!">>

(* C27 as claimed: between the start and the completion of a submission  *)
(* no field of formData changes; in particular termsAccepted cannot be    *)
(* unchecked while the submission is in flight, so it is true whenever a  *)
(* success is reported.                                                   *)
C27_DataFrozenInFlight ==
    /\ [][isSubmitting => formData' = formData]_vars
    /\ [][view = "flow" /\ lastOutcome' = "success" /\ lastOutcome # "success" =>
             formData'.termsAccepted]_vars

(* C28 as claimed: in the billing-address step, once zipCode has been     *)
(* touched, the error shown for it is the validator's answer for the      *)
(* current zipCode under the current country, also right after the        *)
(* country has been changed.                                              *)
C28_ZipErrorFollowsCountry ==
    view = "flow" /\ StepId(currentStep) = "billing-address" /\ touched["zipCode"] =>
        errors["zipCode"] =
            BillingAddress_validateField(formData.billingAddress, "zipCode",
                                         formData.billingAddress.zipCode)

\* how many digits the card number held in formData has
StoredCardDigits == Len(DigitsOf(formData.paymentInfo.cardNumber))

(* C29: no card number stored holds more than 16 digits, so every card    *)
(* number the form accepts (the payment step passed, or a single-page     *)
(* submission started) has 13 to 16 digits; the 17 to 19 digits           *)
(* isValidCardNumber would allow are never reached through the form.      *)
C29_AtMostSixteenDigits ==
    /\ [](StoredCardDigits <= 16)
    /\ [](view = "flow" /\ currentStep > 3 => StoredCardDigits \in 13..16)
    /\ [][(PaymentInfoStep_handleSubmit /\ currentStep' # currentStep)
            \/ (SinglePage_handleSubmit /\ pending' > pending)
            => StoredCardDigits \in 13..16]_vars

\* '4111-1111-1111-1111 9' (17 digits) was typed in the payment step and
\* the step was passed with the 16 digits kept
C29_Witness ==
    /\ view = "flow" /\ currentStep = 4
    /\ formData.paymentInfo.cardNumber = <<"4", "1", "1", "1", " ", "1", "1", "1", "1", " ", "1", "1", "1", "1", " ", "1", "1", "1", "1">>
    /\ StoredCardDigits = 16
    /\ ~formData.termsAccepted

\* the submit the claim speaks of: the email is empty or does not match the
\* email pattern, or, on the sign-in form, the password is empty
AuthSubmitRejected ==
    \/ auth.formData.email = <<>>
    \/ ~EmailRegexTest(auth.formData.email)
    \/ view = "signin" /\ auth.formData.password = <<>>

(* C30: in the sign-in and forgot-password forms a submit whose email is  *)
(* empty or does not match the email pattern (or, on sign-in, whose       *)
(* password is empty) does not set isSubmitting, starts no call and       *)
(* records a field error; isEmailSent becomes true only when a submission *)
(* started with a valid email completes; 'use a different email address'  *)
(* leaves isEmailSent false and the email empty.                          *)
C30_AuthFormsValidateBeforeSubmitting ==
    /\ [][(SignInForm_handleSubmit \/ ForgotPasswordForm_handleSubmit)
            /\ AuthSubmitRejected =>
               /\ ~auth'.isSubmitting
               /\ auth'.call = auth.call
               /\ auth'.errors.email # null \/ auth'.errors.password # null
               /\ auth.formData.email = <<>> =>
                      auth'.errors.email = "Email is required"
               /\ auth.formData.email # <<>> /\ ~EmailRegexTest(auth.formData.email) =>
                      auth'.errors.email = "Please enter a valid email address"
               /\ view = "signin" /\ auth.formData.password = <<>> =>
                      auth'.errors.password = "Password is required"]_vars
    /\ [][auth'.isEmailSent /\ ~auth.isEmailSent =>
               /\ view = "forgot-password"
               /\ auth.isSubmitting /\ auth.call = "pending"
               /\ auth'.call = "success"
               /\ EmailRegexTest(auth.submitted.email)]_vars
    /\ [][ForgotPasswordForm_useDifferentEmail =>
               ~auth'.isEmailSent /\ auth'.formData.email = <<>>]_vars

\* forgot-password: a reset link was sent to 'a@b.c', 'use a different
\* email address' was pressed, 'a@b' was typed and its submit was refused
C30_Witness ==
    /\ view = "forgot-password"
    /\ auth.submitted.email = <<"a", "@", "b", ".", "c">>
    /\ auth.call = "success"
    /\ ~auth.isEmailSent /\ ~auth.isSubmitting
    /\ auth.formData.email = <<"a", "@", "b">>
    /\ auth.errors.email = "Please enter a valid email address"

====
